---- MODULE Spec2Model ----
(***************************************************************************)
(* Authentication and session lifecycle of the honestreviews backend       *)
(* (backend/routers/auth_routes.py, backend/utilities/auth_utils.py,       *)
(* backend/models.py).                                                     *)
(*                                                                         *)
(* Every request handler runs in its own AsyncSession (db.py get_db), that *)
(* is in its own PostgreSQL transaction at the default READ COMMITTED      *)
(* level.  A handler is modelled as the sequence of its database round     *)
(* trips (its awaits); the Python code between two awaits is synchronous   *)
(* and belongs to the step of the await that precedes it.                  *)
(*   - a SELECT reads the committed tables;                                *)
(*   - an UPDATE evaluates its WHERE clause on the committed rows, waits   *)
(*     while a row it matches is write-locked by another transaction, and  *)
(*     write-locks the rows it matches until its own COMMIT;               *)
(*   - a COMMIT publishes the pending writes and releases the locks.       *)
(* The audit columns updated_at and the profile's display fields are read  *)
(* by no handler of this subsystem and are left out.                       *)
(*                                                                         *)
(* The review domain (backend/routers/orgs_routes.py, review_routes.py,    *)
(* personalities_routes.py) is modelled after the authentication part:     *)
(* its handlers run for a caller get_current_user has resolved.            *)
(***************************************************************************)
EXTENDS Integers, Sequences, FiniteSets, TLC

(* ------------------------------ bounds -------------------------------- *)
\* number of requests that can be in flight at the same time
NumReq == 2
\* the clock runs from 0 to MaxTime
MaxTime == 2
\* rows of user_sessions_privacy the model lets login create
MaxSessions == 2
\* raw refresh tokens the model lets the server generate
MaxTokens == 3
\* register requests the model lets succeed
MaxRegistered == 1
\* lifetimes, in clock ticks (30 days, 30 days and 15 minutes in the code)
RefreshTTL == 1
RecoveryTTL == 1
AccessTTL == 1
\* recovery codes per batch (RECOVERY_CODE_COUNT, 10 by default)
RECOVERY_CODE_COUNT == 2
\* organizations the model lets create_org create
MaxOrgs == 2
\* reviews the model lets exist at the same time
MaxReviews == 2
\* reviews of the personality whose listing is read
MaxListed == 3
\* the largest page size asked for
MaxLimit == 2

(* ------------------------- program constants -------------------------- *)
MinPasswordLen == 8

Req == 1..NumReq
\* the usernames register is called with, and those login is called with:
\* the pre-migration profile and one nobody registers ("ghost") besides
AllNames == <<"alice", "bob", "carol">>
RegUsernames == {AllNames[k] : k \in 1..MaxRegistered}
Usernames == RegUsernames \cup {"legacy", "ghost"}
\* register is called with new usernames and with a taken one
RegisterNames == RegUsernames \cup {"legacy"}
\* passwords of 7, 8 and 9 characters: register is called with the first two,
\* recover with the first and the last, login with the last two
RegPasswords == {"short77", "longpass"}
NewPasswords == {"short77", "newpass12"}
LoginPasswords == {"longpass", "newpass12"}

NULL == -1
NULL_HASH == [null |-> TRUE]
\* a stored hash that is not the text of a bcrypt hash (a row written by
\* another system, or by hand)
MALFORMED_HASH == [text |-> "imported"]

(* ------------------------------ state --------------------------------- *)
VARIABLES
    now,                   \* datetime.now(timezone.utc)
    profiles,              \* table profiles, id = index
    user_sessions_privacy, \* table user_sessions_privacy, id = index
    recovery_codes,        \* table recovery_codes, id = index
    tokCtr,                \* raw refresh tokens generated so far
    reqs,                  \* the requests in flight, one per slot
    rotated,               \* history: tokens a committed rotation has replaced
    env,                   \* os.environ of the process, "" for a variable not set
    organizations,         \* table organizations, id = index
    org_memberships,       \* table org_memberships, id = index
    personalities,         \* table personalities, a function of the ids in use
    reviews,               \* table reviews, a function of the ids in use
    listing                \* a client paging through list_reviews_for_personality

\* the tables of the review domain and the client reading them
content == <<organizations, org_memberships, personalities, reviews, listing>>

vars == <<now, profiles, user_sessions_privacy, recovery_codes, tokCtr, reqs, rotated, env,
          organizations, org_memberships, personalities, reviews, listing>>

db == <<profiles, user_sessions_privacy, recovery_codes>>

(* --------------------------- auth_utils.py ---------------------------- *)
\* bcrypt.hash: one-way; the random salt is left out, verify depends only
\* on the secret the digest was made from
hash_password(plain) == [bcrypt |-> plain]

verify_password(plain, hashed) == hashed = [bcrypt |-> plain]

\* auth_utils.py 44, 78: passlib's bcrypt.verify parses the stored hash
\* before it compares, and raises ValueError for a text that is not a bcrypt
\* hash; neither verify function catches it
verify_raises(hashed) == DOMAIN hashed # {"bcrypt"}

hash_recovery_code(raw_code) == [bcrypt |-> raw_code]

verify_recovery_code(raw_code, hashed) == hashed = [bcrypt |-> raw_code]

\* mutant of hmac_refresh_token_hex: the token itself, not a digest
hmac_refresh_token_plain(refresh_token) == [raw |-> refresh_token]

\* HMAC-SHA256 keyed with the pepper: deterministic, one digest per token
hmac_refresh_token_hex(refresh_token) == [hmac |-> refresh_token]

\* secrets.token_urlsafe(48): a token no earlier call has returned
create_refresh_token_raw == tokCtr + 1

create_access_token(subject, username) ==
    [sub |-> subject, iat |-> now, exp |-> now + AccessTTL, username |-> username]

\* secrets.token_urlsafe(9), n times: codes no other call returns; register
\* calls it once per profile, and the profile of id 1 has no codes
generate_recovery_codes(profile_id) ==
    [k \in 1..RECOVERY_CODE_COUNT |-> (profile_id - 2) * RECOVERY_CODE_COUNT + k]

NoAccess == [sub |-> 0, iat |-> 0, exp |-> 0, username |-> ""]

\* jwt.encode(payload, APP_JWT_SECRET, "HS256"): the string a client presents
\* is its claims with a signature; sig is "ok" for a signature made with
\* APP_JWT_SECRET, "bad" for any other, "malformed" for a string that is no JWT
jwt_encode(payload) == [claims |-> payload, sig |-> "ok"]

NoBearer == [claims |-> NoAccess, sig |-> "malformed"]

NoDiag == [token_iat |-> NULL, token_exp |-> NULL, server_time |-> NULL]

\* the environment of a deployment that sets the pepper
Configured == [REFRESH_TOKEN_PEPPER |-> "pepper"]

\* auth_utils.py 83-96, _get_pepper_bytes: os.getenv("REFRESH_TOKEN_PEPPER")
\* is read by every call of hmac_refresh_token_hex; MissingPepperError when
\* it is not set
pepper_missing == env.REFRESH_TOKEN_PEPPER = ""

(* ------------------------------ requests ------------------------------ *)
Idle ==
    [op |-> "idle", pc |-> "idle",
     username |-> "", password |-> "",   \* payload of register, login, recover
     token |-> 0,                        \* presented refresh token
     code |-> 0,                         \* presented recovery code
     row |-> 0,                          \* id of the row the select returned
     profile_id |-> 0,
     new_token |-> 0, access_token |-> NoAccess,
     ts |-> 0,                           \* datetime.now() read by the handler
     locked |-> {},                      \* rows write-locked: <<table, id>>
     waits |-> {},                       \* rows whose lock the UPDATE waits for
     name |-> "",                        \* payload.name of create_org
     slug |-> <<>>,                      \* slug of the path, or the one computed
     org |-> 0,                          \* id of the organization selected
     rowcount |-> 0,
     inserted |-> <<>>,                  \* rows INSERTed, not yet committed
     bearer |-> NoBearer,                \* presented access token
     result |-> 0,                       \* id of the profile returned
     diag |-> NoDiag,                    \* timestamps in the 401's detail
     status |-> 0, detail |-> "", codes |-> <<>>]

Fail(code, detail) ==
    [Idle EXCEPT !.pc = "done", !.status = code, !.detail = detail]

LockedByOther(r, what) == \E o \in Req \ {r} : what \in reqs[o].locked

Ids(table) == 1..Len(table)

\* raw tokens a client can present: an unknown one (0) and those a response
\* has carried
Presentable ==
    {0} \cup {t \in 1..tokCtr :
                \A r \in Req : reqs[r].pc \in {"idle", "done"} \/ reqs[r].new_token # t}

\* raw recovery codes a client can present: an unknown one (0) and those
\* register has returned
PresentableCodes ==
    {0} \cup {c \in 1..(MaxRegistered * RECOVERY_CODE_COUNT) :
                \E i \in Ids(recovery_codes) :
                    verify_recovery_code(c, recovery_codes[i].code_hash)}

(* ------------------------------- Init --------------------------------- *)
\* no client is paging
NoListing ==
    [sort |-> "", limit |-> 0, rating_min |-> NULL, rating_max |-> NULL,
     cursor |-> <<>>, items |-> <<>>, pc |-> "idle"]

\* no organization, personality or review exists
NoContent ==
    /\ organizations = <<>>
    /\ org_memberships = <<>>
    /\ personalities = <<>>
    /\ reviews = <<>>
    /\ listing = NoListing

\* one profile from before the password migration (password_hash NULL,
\* models.py: nullable), no session, no recovery code
Init ==
    /\ now = 0
    /\ profiles = <<[username |-> "legacy", password_hash |-> NULL_HASH]>>
    /\ user_sessions_privacy = <<>>
    /\ recovery_codes = <<>>
    /\ tokCtr = 0
    /\ reqs = [r \in Req |-> Idle]
    /\ rotated = {}
    /\ env = Configured
    /\ NoContent

Tick ==
    /\ now < MaxTime
    /\ now' = now + 1
    /\ UNCHANGED <<content, env, profiles, user_sessions_privacy, recovery_codes, tokCtr, reqs, rotated>>

\* the response has been sent; the slot serves the next request
Return(r) ==
    /\ reqs[r].pc = "done"
    /\ reqs' = [reqs EXCEPT ![r] = Idle]
    /\ UNCHANGED <<content, env, now, profiles, user_sessions_privacy, recovery_codes, tokCtr, rotated>>

(* ------------------------------ register ------------------------------ *)
ProfileByUsername(u) == {i \in Ids(profiles) : profiles[i].username = u}

\* mutant of password_too_short: the length check is missing
password_too_short_never(pw) == FALSE

password_too_short(pw) == Len(pw) < MinPasswordLen

\* mutant of username_taken: the unique index on username is missing
username_taken_never(u) == FALSE

\* models.py 36, auth_routes.py 55-61: the INSERT violates the unique index
\* on profiles.username
username_taken(u) == ProfileByUsername(u) # {}

\* auth_routes.py 49-61: validate, hash, INSERT the profile and COMMIT; the
\* unique index on username raises IntegrityError, answered with 400
register_profile(r, u, pw) ==
    /\ reqs[r].pc = "idle"
    /\ IF password_too_short(pw)
       THEN /\ reqs' = [reqs EXCEPT ![r] =
                  [Fail(400, "Password must be at least 8 characters")
                     EXCEPT !.op = "register", !.username = u, !.password = pw]]
            /\ UNCHANGED profiles
       ELSE IF username_taken(u)
       THEN /\ reqs' = [reqs EXCEPT ![r] =
                  [Fail(400, "Username already exists")
                     EXCEPT !.op = "register", !.username = u, !.password = pw]]
            /\ UNCHANGED profiles
       ELSE /\ Len(profiles) < MaxRegistered + 1
            /\ profiles' = Append(profiles,
                  [username |-> u, password_hash |-> hash_password(pw)])
            /\ reqs' = [reqs EXCEPT ![r] =
                  [Idle EXCEPT !.op = "register", !.pc = "codes", !.username = u,
                               !.password = pw, !.profile_id = Len(profiles) + 1]]
    /\ UNCHANGED <<content, env, now, user_sessions_privacy, recovery_codes, tokCtr, rotated>>

\* auth_routes.py 64-77: one turn of the loop over the raw codes: hash the
\* next code, read the clock, INSERT the row in the open transaction
register_insert_code(r) ==
    /\ reqs[r].op = "register" /\ reqs[r].pc = "codes"
    /\ Len(reqs[r].inserted) < RECOVERY_CODE_COUNT
    /\ LET raw_codes == generate_recovery_codes(reqs[r].profile_id)
           raw == raw_codes[Len(reqs[r].inserted) + 1]
           row == [profile_id |-> reqs[r].profile_id,
                   code_hash |-> hash_recovery_code(raw),
                   created_at |-> now,
                   expires_at |-> now + RecoveryTTL,
                   consumed_at |-> NULL]
       IN reqs' = [reqs EXCEPT ![r].inserted = Append(reqs[r].inserted, row),
                               ![r].codes = raw_codes]
    /\ UNCHANGED <<content, env, now, profiles, user_sessions_privacy, recovery_codes, tokCtr, rotated>>

\* auth_routes.py 78-87: COMMIT the inserted rows, answer 201 with the raw
\* codes
register_codes(r) ==
    /\ reqs[r].op = "register" /\ reqs[r].pc = "codes"
    /\ Len(reqs[r].inserted) = RECOVERY_CODE_COUNT
    /\ recovery_codes' = recovery_codes \o reqs[r].inserted
    /\ reqs' = [reqs EXCEPT ![r].pc = "done", ![r].status = 201, ![r].inserted = <<>>]
    /\ UNCHANGED <<content, env, now, profiles, user_sessions_privacy, tokCtr, rotated>>

(* ------------------------------- login -------------------------------- *)
\* requests that will still take a raw token from the generator
TokensReserved == Cardinality({r \in Req : reqs[r].op = "refresh" /\ reqs[r].pc = "load"})

\* rows logins in flight will still insert
SessionsReserved == Cardinality({r \in Req : reqs[r].op = "login" /\ reqs[r].pc = "commit"})

\* mutant of login_error: an unknown username gets a message of its own
login_error_oracle(matches, pw) ==
    IF matches = {}
    THEN "Unknown username"
    ELSE IF \E i \in matches : profiles[i].password_hash = NULL_HASH
    THEN "Invalid credentials"
    ELSE IF \E i \in matches : ~verify_password(pw, profiles[i].password_hash)
    THEN "Invalid credentials"
    ELSE ""

\* auth_routes.py 102-107: the detail of the 401 login raises, "" when it
\* raises none: no profile or no password_hash (103), wrong password (107)
login_error(matches, pw) ==
    IF matches = {} \/ \E i \in matches : profiles[i].password_hash = NULL_HASH
    THEN "Invalid credentials"
    ELSE IF \E i \in matches : ~verify_password(pw, profiles[i].password_hash)
    THEN "Invalid credentials"
    ELSE ""

\* auth_routes.py 102-105: the profile has a password_hash (line 102) and
\* verify_password raises on it
login_verify_raises(matches) ==
    \E i \in matches : /\ profiles[i].password_hash # NULL_HASH
                       /\ verify_raises(profiles[i].password_hash)

\* auth_routes.py 99-124: SELECT the profile, check the password, build the
\* tokens and the session row; raw is what create_refresh_token_raw returns
login_issue(r, u, pw, raw) ==
    /\ reqs[r].pc = "idle"
    /\ LET matches == ProfileByUsername(u)
       IN IF login_verify_raises(matches)
          THEN /\ reqs' = [reqs EXCEPT ![r] =
                     [Fail(500, "Internal Server Error")
                        EXCEPT !.op = "login", !.username = u, !.password = pw]]
               /\ UNCHANGED tokCtr
          ELSE IF login_error(matches, pw) # ""
          THEN /\ reqs' = [reqs EXCEPT ![r] =
                     [Fail(401, login_error(matches, pw))
                        EXCEPT !.op = "login", !.username = u, !.password = pw]]
               /\ UNCHANGED tokCtr
          ELSE IF pepper_missing
          THEN /\ reqs' = [reqs EXCEPT ![r] =
                     [Fail(500, "Internal Server Error")
                        EXCEPT !.op = "login", !.username = u, !.password = pw]]
               /\ UNCHANGED tokCtr
          ELSE /\ tokCtr + TokensReserved < MaxTokens
               /\ Len(user_sessions_privacy) + SessionsReserved < MaxSessions
               /\ LET pid == CHOOSE i \in matches : TRUE
                  IN reqs' = [reqs EXCEPT ![r] =
                       [Idle EXCEPT !.op = "login", !.pc = "commit",
                                    !.username = u, !.password = pw,
                                    !.profile_id = pid,
                                    !.access_token = create_access_token(pid, u),
                                    !.new_token = raw,
                                    !.ts = now]]
               /\ tokCtr' = IF raw > tokCtr THEN raw ELSE tokCtr
    /\ UNCHANGED <<content, env, now, profiles, user_sessions_privacy, recovery_codes, rotated>>

\* login when the 48 random bytes are a token no earlier call has returned
login_select(r, u, pw) == login_issue(r, u, pw, create_refresh_token_raw)

\* login when secrets.token_urlsafe returns any 48 random bytes, among them
\* bytes an earlier call has returned
login_select_random(r, u, pw) ==
    \E raw \in 1..(tokCtr + 1) : login_issue(r, u, pw, raw)

\* mutant of HashInUse: the unique index on refresh_token_hash is missing
HashInUse_never(h) == FALSE

\* models.py 178: a committed row holds the digest h
HashInUse(h) == \E i \in Ids(user_sessions_privacy) :
                   user_sessions_privacy[i].refresh_token_hash = h

\* the unique index cannot decide yet whether writing the digest h clashes:
\* another transaction has written h and not committed, or has locked the
\* row that holds h; the write waits for that transaction
DigestUndecided(r, h) ==
    \E o \in Req \ {r} :
        /\ reqs[o].locked # {}
        /\ \/ reqs[o].op = "refresh" /\ hmac_refresh_token_hex(reqs[o].new_token) = h
           \/ \E i \in Ids(user_sessions_privacy) :
                 /\ user_sessions_privacy[i].refresh_token_hash = h
                 /\ <<"user_sessions_privacy", i>> \in reqs[o].locked

\* auth_routes.py 116-123: the row login adds
login_session_row(q) ==
    [profile_id |-> q.profile_id,
     refresh_token_hash |-> hmac_refresh_token_hex(q.new_token),
     created_at |-> q.ts,
     last_used_at |-> q.ts,
     expires_at |-> q.ts + RefreshTTL,
     revoked |-> FALSE]

\* auth_routes.py 124-135: INSERT and COMMIT; an IntegrityError (the unique
\* index on refresh_token_hash, the foreign key profile_id) is rolled back
\* and swallowed; answer 200
login_commit(r) ==
    /\ reqs[r].op = "login" /\ reqs[r].pc = "commit"
    /\ LET row == login_session_row(reqs[r])
       IN /\ ~DigestUndecided(r, row.refresh_token_hash)
          /\ user_sessions_privacy' =
             IF HashInUse(row.refresh_token_hash) \/ row.profile_id \notin Ids(profiles)
             THEN user_sessions_privacy
             ELSE Append(user_sessions_privacy, row)
    /\ reqs' = [reqs EXCEPT ![r].pc = "done", ![r].status = 200]
    /\ UNCHANGED <<content, env, now, profiles, recovery_codes, tokCtr, rotated>>

(* ------------------------------ refresh ------------------------------- *)
Sessions == Ids(user_sessions_privacy)

\* mutant of refresh_select_where: the revoked == False condition is missing
refresh_select_where_any(presented_hash) ==
    {i \in Sessions :
        user_sessions_privacy[i].refresh_token_hash = presented_hash}

\* auth_routes.py 145-148: WHERE refresh_token_hash == presented_hash AND
\* revoked == False
refresh_select_where(presented_hash) ==
    {i \in Sessions :
        /\ user_sessions_privacy[i].refresh_token_hash = presented_hash
        /\ user_sessions_privacy[i].revoked = FALSE}

\* mutant of session_expired: the expiry check is missing
session_never_expired(session_row) == FALSE

\* auth_routes.py 154: session_row.expires_at and session_row.expires_at < now
session_expired(session_row) ==
    session_row.expires_at # NULL /\ session_row.expires_at < now

\* mutant of refresh_select: the expired session is revoked on the way out
refresh_select_revoking(r, t) ==
    /\ reqs[r].pc = "idle"
    /\ LET presented_hash == hmac_refresh_token_hex(t)
           found == refresh_select_where(presented_hash)
       IN IF pepper_missing
          THEN /\ reqs' = [reqs EXCEPT ![r] =
                     [Fail(500, "Internal Server Error")
                        EXCEPT !.op = "refresh", !.token = t]]
               /\ UNCHANGED user_sessions_privacy
          ELSE IF found = {}
          THEN /\ reqs' = [reqs EXCEPT ![r] =
                     [Fail(401, "Invalid or revoked refresh token")
                        EXCEPT !.op = "refresh", !.token = t]]
               /\ UNCHANGED user_sessions_privacy
          ELSE LET i == CHOOSE j \in found : TRUE
               IN IF session_expired(user_sessions_privacy[i])
                  THEN /\ reqs' = [reqs EXCEPT ![r] =
                            [Fail(401, "Refresh token expired")
                               EXCEPT !.op = "refresh", !.token = t, !.row = i]]
                       /\ user_sessions_privacy' =
                            [user_sessions_privacy EXCEPT ![i].revoked = TRUE]
                  ELSE /\ tokCtr + TokensReserved < MaxTokens
                       /\ UNCHANGED user_sessions_privacy
                       /\ reqs' = [reqs EXCEPT ![r] =
                            [Idle EXCEPT !.op = "refresh", !.pc = "load", !.token = t,
                                 !.row = i,
                                 !.profile_id = user_sessions_privacy[i].profile_id]]
    /\ UNCHANGED <<content, env, now, profiles, recovery_codes, tokCtr, rotated>>

\* auth_routes.py 142-155: digest the presented token, SELECT the session,
\* refuse an unknown, revoked or expired one
refresh_select(r, t) ==
    /\ reqs[r].pc = "idle"
    /\ LET presented_hash == hmac_refresh_token_hex(t)
           found == refresh_select_where(presented_hash)
       IN IF pepper_missing
          THEN reqs' = [reqs EXCEPT ![r] =
                  [Fail(500, "Internal Server Error")
                     EXCEPT !.op = "refresh", !.token = t]]
          ELSE IF found = {}
          THEN reqs' = [reqs EXCEPT ![r] =
                  [Fail(401, "Invalid or revoked refresh token")
                     EXCEPT !.op = "refresh", !.token = t]]
          ELSE LET i == CHOOSE j \in found : TRUE
               IN IF session_expired(user_sessions_privacy[i])
                  THEN reqs' = [reqs EXCEPT ![r] =
                          [Fail(401, "Refresh token expired")
                             EXCEPT !.op = "refresh", !.token = t, !.row = i]]
                  ELSE /\ tokCtr + TokensReserved < MaxTokens
                       /\ reqs' = [reqs EXCEPT ![r] =
                            [Idle EXCEPT !.op = "refresh", !.pc = "load", !.token = t,
                                 !.row = i,
                                 !.profile_id = user_sessions_privacy[i].profile_id]]
    /\ UNCHANGED <<content, env, now, profiles, user_sessions_privacy, recovery_codes, tokCtr, rotated>>

\* mutant of refresh_profile: the first registered profile is loaded
refresh_profile_first(profile_id) ==
    {i \in Ids(profiles) : profile_id \in Ids(profiles) /\ i = 2}

\* auth_routes.py 157: select(Profile).where(Profile.id == session_row.profile_id)
refresh_profile(profile_id) == {i \in Ids(profiles) : i = profile_id}

\* auth_routes.py 157-173: SELECT the owning profile, build the new access
\* token, the new raw refresh token and the UPDATE's values; raw is what
\* create_refresh_token_raw returns
refresh_issue(r, raw) ==
    /\ reqs[r].op = "refresh" /\ reqs[r].pc = "load"
    /\ IF refresh_profile(reqs[r].profile_id) = {}
       THEN /\ reqs' = [reqs EXCEPT ![r] =
                  [Fail(401, "Invalid session")
                     EXCEPT !.op = "refresh", !.token = reqs[r].token]]
            /\ UNCHANGED tokCtr
       ELSE /\ reqs' = [reqs EXCEPT
                  ![r].pc = "update",
                  ![r].access_token =
                      LET profile == CHOOSE i \in refresh_profile(reqs[r].profile_id) : TRUE
                      IN create_access_token(profile, profiles[profile].username),
                  ![r].new_token = raw,
                  ![r].ts = now]
            /\ tokCtr' = IF raw > tokCtr THEN raw ELSE tokCtr
    /\ UNCHANGED <<content, env, now, profiles, user_sessions_privacy, recovery_codes, rotated>>

\* refresh when the 48 random bytes are a token no earlier call has returned
refresh_load_profile(r) == refresh_issue(r, create_refresh_token_raw)

\* refresh when secrets.token_urlsafe returns any 48 random bytes
refresh_load_profile_random(r) ==
    \E raw \in 1..(tokCtr + 1) : refresh_issue(r, raw)

\* auth_routes.py 168: WHERE refresh_token_hash == presented_hash
refresh_update_where(presented_hash) ==
    {i \in Sessions : user_sessions_privacy[i].refresh_token_hash = presented_hash}

\* mutant of refresh_update_values: the digest is not rotated
refresh_update_values_keep_hash(session_row, q) ==
    [session_row EXCEPT
        !.last_used_at = q.ts,
        !.expires_at = q.ts + RefreshTTL]

\* auth_routes.py 168-173: the values the UPDATE writes
refresh_update_values(session_row, q) ==
    [session_row EXCEPT
        !.refresh_token_hash = hmac_refresh_token_hex(q.new_token),
        !.last_used_at = q.ts,
        !.expires_at = q.ts + RefreshTTL]

\* models.py 178: the UPDATE would give a row the digest another row holds:
\* the unique index on refresh_token_hash raises IntegrityError, which
\* refresh does not catch
refresh_update_clash(matched, new_token) ==
    /\ matched # {}
    /\ \E j \in Sessions \ matched :
          user_sessions_privacy[j].refresh_token_hash = hmac_refresh_token_hex(new_token)

\* auth_routes.py 174: the UPDATE runs: it waits for the write lock of the
\* rows it matches and locks them; the handler does not read its rowcount
refresh_update(r) ==
    /\ reqs[r].op = "refresh" /\ reqs[r].pc = "update"
    /\ LET matched == refresh_update_where(hmac_refresh_token_hex(reqs[r].token))
       IN /\ \A i \in matched : ~LockedByOther(r, <<"user_sessions_privacy", i>>)
          /\ matched # {} => ~DigestUndecided(r, hmac_refresh_token_hex(reqs[r].new_token))
          /\ reqs' = [reqs EXCEPT ![r] =
                 IF refresh_update_clash(matched, reqs[r].new_token)
                 THEN [Fail(500, "Internal Server Error")
                         EXCEPT !.op = "refresh", !.token = reqs[r].token]
                 ELSE [reqs[r] EXCEPT
                         !.pc = "commit",
                         !.locked = {<<"user_sessions_privacy", i>> : i \in matched},
                         !.rowcount = Cardinality(matched)]]
    /\ UNCHANGED <<content, env, now, profiles, user_sessions_privacy, recovery_codes, tokCtr, rotated>>

\* auth_routes.py 175-182: COMMIT and answer 200 with the new tokens
refresh_commit(r) ==
    /\ reqs[r].op = "refresh" /\ reqs[r].pc = "commit"
    /\ user_sessions_privacy' =
          [i \in Sessions |->
              IF <<"user_sessions_privacy", i>> \in reqs[r].locked
              THEN refresh_update_values(user_sessions_privacy[i], reqs[r])
              ELSE user_sessions_privacy[i]]
    /\ rotated' = IF reqs[r].rowcount > 0 THEN rotated \cup {reqs[r].token} ELSE rotated
    /\ reqs' = [reqs EXCEPT ![r].pc = "done", ![r].status = 200, ![r].locked = {}]
    /\ UNCHANGED <<content, env, now, profiles, recovery_codes, tokCtr>>

(* ------------------------------- logout ------------------------------- *)
\* mutant of logout_where: every session of the token's owner is matched
logout_where_owner(presented_hash) ==
    {i \in Sessions :
        \E j \in Sessions :
            /\ user_sessions_privacy[j].refresh_token_hash = presented_hash
            /\ user_sessions_privacy[j].profile_id = user_sessions_privacy[i].profile_id}

\* auth_routes.py 191: WHERE refresh_token_hash == presented_hash
logout_where(presented_hash) ==
    {i \in Sessions : user_sessions_privacy[i].refresh_token_hash = presented_hash}

\* mutant of logout_values: the flag is flipped instead of set
logout_values_toggle(session_row) ==
    [session_row EXCEPT !.revoked = ~session_row.revoked]

\* auth_routes.py 191-194: the values the UPDATE writes
logout_values(session_row) == [session_row EXCEPT !.revoked = TRUE]

\* the unrevoked row the presented token is the token of when the UPDATE is
\* issued, 0 if there is none
logout_live_row(matched) ==
    IF \E i \in matched : user_sessions_privacy[i].revoked = FALSE
    THEN CHOOSE i \in matched : user_sessions_privacy[i].revoked = FALSE
    ELSE 0

\* auth_routes.py 189-195: digest the presented token and run the UPDATE
\* (which waits while another transaction holds the lock of a row it matches)
logout_update(r, t) ==
    /\ reqs[r].pc = "idle"
    /\ LET matched == logout_where(hmac_refresh_token_hex(t))
       IN IF pepper_missing
          THEN reqs' = [reqs EXCEPT ![r] =
                  [Fail(500, "Internal Server Error")
                     EXCEPT !.op = "logout", !.token = t]]
          ELSE IF \E i \in matched : LockedByOther(r, <<"user_sessions_privacy", i>>)
          THEN reqs' = [reqs EXCEPT ![r] =
                  [Idle EXCEPT !.op = "logout", !.pc = "wait", !.token = t,
                       !.row = logout_live_row(matched),
                       !.waits = {<<"user_sessions_privacy", i>> : i \in matched}]]
          ELSE reqs' = [reqs EXCEPT ![r] =
                  [Idle EXCEPT !.op = "logout", !.pc = "commit", !.token = t,
                       !.row = logout_live_row(matched),
                       !.locked = {<<"user_sessions_privacy", i>> : i \in matched},
                       !.rowcount = Cardinality(matched)]]
    /\ UNCHANGED <<content, env, now, profiles, user_sessions_privacy, recovery_codes, tokCtr, rotated>>

\* auth_routes.py 191-195: the UPDATE that waited for the lock of a row goes
\* on when the holder has committed, and evaluates its WHERE again on the
\* row as committed (READ COMMITTED)
logout_resume(r) ==
    /\ reqs[r].op = "logout" /\ reqs[r].pc = "wait"
    /\ LET matched == {i \in logout_where(hmac_refresh_token_hex(reqs[r].token)) :
                          <<"user_sessions_privacy", i>> \in reqs[r].waits}
       IN /\ \A w \in reqs[r].waits : ~LockedByOther(r, w)
          /\ reqs' = [reqs EXCEPT ![r].pc = "commit", ![r].waits = {},
                 ![r].locked = {<<"user_sessions_privacy", i>> : i \in matched},
                 ![r].rowcount = Cardinality(matched)]
    /\ UNCHANGED <<content, env, now, profiles, user_sessions_privacy, recovery_codes, tokCtr, rotated>>

\* auth_routes.py 196-197: COMMIT and answer 204
logout_commit(r) ==
    /\ reqs[r].op = "logout" /\ reqs[r].pc = "commit"
    /\ user_sessions_privacy' =
          [i \in Sessions |->
              IF <<"user_sessions_privacy", i>> \in reqs[r].locked
              THEN logout_values(user_sessions_privacy[i])
              ELSE user_sessions_privacy[i]]
    /\ reqs' = [reqs EXCEPT ![r].pc = "done", ![r].status = 204, ![r].locked = {}]
    /\ UNCHANGED <<content, env, now, profiles, recovery_codes, tokCtr, rotated>>

(* ------------------------------- recover ------------------------------ *)
\* mutant of recover_candidates: the consumed_at IS NULL condition is missing
recover_candidates_all == Ids(recovery_codes)

\* auth_routes.py 217: WHERE consumed_at IS NULL
recover_candidates == {i \in Ids(recovery_codes) : recovery_codes[i].consumed_at = NULL}

\* auth_routes.py 221-225: the rows of the scan the presented code verifies
\* against
recover_matches(raw_code) ==
    {i \in recover_candidates : verify_recovery_code(raw_code, recovery_codes[i].code_hash)}

\* auth_routes.py 217-225: whether the loop calls verify_recovery_code on a
\* row it raises on. The SELECT has no ORDER BY: with a matching row and a
\* malformed one among the candidates, either may come first
recover_scan_raises(raw_code) ==
    LET malformed == {i \in recover_candidates :
                         verify_raises(recovery_codes[i].code_hash)}
    IN IF malformed = {} THEN {FALSE}
       ELSE IF recover_matches(raw_code) = {} THEN {TRUE}
       ELSE {TRUE, FALSE}

\* auth_routes.py 231: matched.expires_at and matched.expires_at < now
recovery_code_expired(matched) ==
    matched.expires_at # NULL /\ matched.expires_at < now

\* auth_routes.py 209-232: validate the password, SELECT the unconsumed
\* codes, verify the presented code against each, check the expiry
recover_scan(r, c, pw) ==
    /\ reqs[r].pc = "idle"
    /\ \E raised \in recover_scan_raises(c) :
       IF password_too_short(pw)
       THEN reqs' = [reqs EXCEPT ![r] =
               [Fail(400, "Password must be at least 8 characters")
                  EXCEPT !.op = "recover", !.code = c, !.password = pw]]
       ELSE IF raised
       THEN reqs' = [reqs EXCEPT ![r] =
               [Fail(500, "Internal Server Error")
                  EXCEPT !.op = "recover", !.code = c, !.password = pw]]
       ELSE IF recover_matches(c) = {}
       THEN reqs' = [reqs EXCEPT ![r] =
               [Fail(401, "Invalid or already used recovery code")
                  EXCEPT !.op = "recover", !.code = c, !.password = pw]]
       ELSE LET i == CHOOSE j \in recover_matches(c) :
                        \A k \in recover_matches(c) : j <= k
            IN IF recovery_code_expired(recovery_codes[i])
               THEN reqs' = [reqs EXCEPT ![r] =
                       [Fail(401, "Recovery code expired")
                          EXCEPT !.op = "recover", !.code = c, !.password = pw, !.row = i]]
               ELSE reqs' = [reqs EXCEPT ![r] =
                       [Idle EXCEPT !.op = "recover", !.pc = "load", !.code = c,
                            !.password = pw, !.row = i,
                            !.profile_id = recovery_codes[i].profile_id]]
    /\ UNCHANGED <<content, env, now, profiles, user_sessions_privacy, recovery_codes, tokCtr, rotated>>

\* auth_routes.py 234-245: SELECT the owning profile, set its password_hash
\* on the ORM object, build the UPDATE of the code row
recover_load_profile(r) ==
    /\ reqs[r].op = "recover" /\ reqs[r].pc = "load"
    /\ IF reqs[r].profile_id \notin Ids(profiles)
       THEN reqs' = [reqs EXCEPT ![r] =
               [Fail(404, "Associated profile not found")
                  EXCEPT !.op = "recover", !.code = reqs[r].code,
                         !.password = reqs[r].password]]
       ELSE reqs' = [reqs EXCEPT ![r].pc = "update", ![r].ts = now]
    /\ UNCHANGED <<content, env, now, profiles, user_sessions_privacy, recovery_codes, tokCtr, rotated>>

\* auth_routes.py 242-246: the autoflush writes the profile's password_hash,
\* then UPDATE recovery_codes WHERE id == matched.id writes consumed_at; each
\* waits for the row's write lock and keeps it
recover_update(r) ==
    /\ reqs[r].op = "recover" /\ reqs[r].pc = "update"
    /\ ~LockedByOther(r, <<"profiles", reqs[r].profile_id>>)
    /\ ~LockedByOther(r, <<"recovery_codes", reqs[r].row>>)
    /\ reqs' = [reqs EXCEPT ![r] =
           IF reqs[r].profile_id \notin Ids(profiles)
           THEN \* the flushed UPDATE of the profile matches no row: the ORM
                \* raises StaleDataError, which recover does not catch
                [Fail(500, "Internal Server Error")
                   EXCEPT !.op = "recover", !.code = reqs[r].code,
                          !.password = reqs[r].password]
           ELSE [reqs[r] EXCEPT
                   !.pc = "commit",
                   !.locked = {<<"profiles", reqs[r].profile_id>>,
                               <<"recovery_codes", reqs[r].row>>},
                   !.rowcount = 1]]
    /\ UNCHANGED <<content, env, now, profiles, user_sessions_privacy, recovery_codes, tokCtr, rotated>>

\* mutant of recover_profile_values: the new password is not stored
recover_profile_values_unchanged(profile, new_pw) == profile

\* auth_routes.py 240: profile.password_hash = hash_password(new_pw)
recover_profile_values(profile, new_pw) ==
    [profile EXCEPT !.password_hash = hash_password(new_pw)]

\* mutant of recover_commit: the code is left as it was
recover_commit_code_kept(r) ==
    /\ reqs[r].op = "recover" /\ reqs[r].pc = "commit"
    /\ profiles' = [profiles EXCEPT ![reqs[r].profile_id] =
           recover_profile_values(profiles[reqs[r].profile_id], reqs[r].password)]
    /\ reqs' = [reqs EXCEPT ![r].pc = "done", ![r].status = 200, ![r].locked = {},
           ![r].detail = "Password updated. You may now login using your username and new password."]
    /\ UNCHANGED <<content, env, now, recovery_codes, user_sessions_privacy, tokCtr, rotated>>

\* mutant of recover_commit: every code of the profile is consumed
recover_commit_all_codes(r) ==
    /\ reqs[r].op = "recover" /\ reqs[r].pc = "commit"
    /\ profiles' = [profiles EXCEPT ![reqs[r].profile_id] =
           recover_profile_values(profiles[reqs[r].profile_id], reqs[r].password)]
    /\ recovery_codes' =
           [i \in Ids(recovery_codes) |->
               IF recovery_codes[i].profile_id = reqs[r].profile_id
               THEN [recovery_codes[i] EXCEPT !.consumed_at = reqs[r].ts]
               ELSE recovery_codes[i]]
    /\ reqs' = [reqs EXCEPT ![r].pc = "done", ![r].status = 200, ![r].locked = {},
           ![r].detail = "Password updated. You may now login using your username and new password."]
    /\ UNCHANGED <<content, env, now, user_sessions_privacy, tokCtr, rotated>>

\* mutant of recover_commit: the reset revokes the sessions of the profile
recover_commit_revoking(r) ==
    /\ reqs[r].op = "recover" /\ reqs[r].pc = "commit"
    /\ profiles' = [profiles EXCEPT ![reqs[r].profile_id] =
           recover_profile_values(profiles[reqs[r].profile_id], reqs[r].password)]
    /\ recovery_codes' = [recovery_codes EXCEPT ![reqs[r].row].consumed_at = reqs[r].ts]
    /\ user_sessions_privacy' =
           [i \in Sessions |->
               IF user_sessions_privacy[i].profile_id = reqs[r].profile_id
               THEN [user_sessions_privacy[i] EXCEPT !.revoked = TRUE]
               ELSE user_sessions_privacy[i]]
    /\ reqs' = [reqs EXCEPT ![r].pc = "done", ![r].status = 200, ![r].locked = {},
           ![r].detail = "Password updated. You may now login using your username and new password."]
    /\ UNCHANGED <<content, env, now, tokCtr, rotated>>

\* auth_routes.py 247-249: COMMIT and answer 200
recover_commit(r) ==
    /\ reqs[r].op = "recover" /\ reqs[r].pc = "commit"
    /\ profiles' = [profiles EXCEPT ![reqs[r].profile_id] =
           recover_profile_values(profiles[reqs[r].profile_id], reqs[r].password)]
    /\ recovery_codes' = [recovery_codes EXCEPT ![reqs[r].row].consumed_at = reqs[r].ts]
    /\ reqs' = [reqs EXCEPT ![r].pc = "done", ![r].status = 200, ![r].locked = {},
           ![r].detail = "Password updated. You may now login using your username and new password."]
    /\ UNCHANGED <<content, env, now, user_sessions_privacy, tokCtr, rotated>>

(* --------------------------- account deletion ------------------------- *)
\* models.py 177, 194: a profile is deleted from outside this subsystem (no
\* handler of it deletes one); ON DELETE CASCADE removes its session rows and
\* its recovery codes in the same transaction, which waits for the write
\* locks on them.  The newest profile is the one deleted, so that the ids of
\* the rows that stay are unchanged.
delete_profile ==
    /\ Len(profiles) > 1
    /\ \A r \in Req : reqs[r].locked = {}
    /\ LET p == Len(profiles)
           keep(row) == row.profile_id # p
       IN /\ \A i \in Ids(user_sessions_privacy), j \in Ids(user_sessions_privacy) :
                (i < j /\ keep(user_sessions_privacy[j])) => keep(user_sessions_privacy[i])
          /\ \A i \in Ids(recovery_codes), j \in Ids(recovery_codes) :
                (i < j /\ keep(recovery_codes[j])) => keep(recovery_codes[i])
          /\ profiles' = SubSeq(profiles, 1, p - 1)
          /\ user_sessions_privacy' = SelectSeq(user_sessions_privacy, keep)
          /\ recovery_codes' = SelectSeq(recovery_codes, keep)
    /\ UNCHANGED <<content, env, now, tokCtr, reqs, rotated>>

(* -------------------------- get_current_user -------------------------- *)
\* mutant of jwt_decode: the signature is not verified
jwt_decode_unverified(token) ==
    IF token.sig = "malformed" THEN "DecodeError"
    ELSE IF token.claims.exp <= now THEN "ExpiredSignatureError"
    ELSE "ok"

\* mutant of jwt_decode: exp is validated before the signature
jwt_decode_exp_first(token) ==
    IF token.sig = "malformed" THEN "DecodeError"
    ELSE IF token.claims.exp <= now THEN "ExpiredSignatureError"
    ELSE IF token.sig # "ok" THEN "InvalidSignatureError"
    ELSE "ok"

\* mutant of jwt_decode: a token is still taken at the time of its exp
jwt_decode_leeway(token) ==
    IF token.sig = "malformed" THEN "DecodeError"
    ELSE IF token.sig # "ok" THEN "InvalidSignatureError"
    ELSE IF token.claims.exp < now THEN "ExpiredSignatureError"
    ELSE "ok"

\* auth_dependencies.py 71: jwt.decode(token, APP_JWT_SECRET, algorithms):
\* parse, verify the signature, then validate exp
jwt_decode(token) ==
    IF token.sig = "malformed" THEN "DecodeError"
    ELSE IF token.sig # "ok" THEN "InvalidSignatureError"
    ELSE IF token.claims.exp <= now THEN "ExpiredSignatureError"
    ELSE "ok"

\* auth_dependencies.py 75-101: the claims decoded without verification and
\* the server's clock
expiry_detail(token) ==
    [token_iat |-> token.claims.iat, token_exp |-> token.claims.exp,
     server_time |-> now]

\* access tokens a client can present: those login issued when it created a
\* session row and refresh issued when it last rotated it; tokens signed
\* with APP_JWT_SECRET that carry no sub or the id of no profile; tokens
\* with a signature of another key; a string that is no JWT
AccessTokens ==
    {jwt_encode([sub |-> user_sessions_privacy[i].profile_id, iat |-> t,
                 exp |-> t + AccessTTL,
                 username |-> profiles[user_sessions_privacy[i].profile_id].username]) :
        i \in Ids(user_sessions_privacy),
        t \in {user_sessions_privacy[j].created_at : j \in Ids(user_sessions_privacy)}
              \cup {user_sessions_privacy[j].last_used_at : j \in Ids(user_sessions_privacy)}}
    \cup {jwt_encode([sub |-> p, iat |-> t, exp |-> t + AccessTTL, username |-> ""]) :
             p \in {0, Len(profiles) + 1}, t \in {0, now}}
    \cup {[claims |-> [sub |-> Len(profiles), iat |-> t, exp |-> t + AccessTTL,
                       username |-> profiles[Len(profiles)].username],
           sig |-> "bad"] : t \in {0, now}}
    \cup {NoBearer}

\* auth_dependencies.py 69-109: decode the token, check sub
get_current_user_decode(r, token) ==
    /\ reqs[r].pc = "idle"
    /\ LET outcome == jwt_decode(token)
           q == [Idle EXCEPT !.op = "get_current_user", !.bearer = token, !.ts = now]
       IN reqs' = [reqs EXCEPT ![r] =
             IF outcome = "ExpiredSignatureError"
             THEN [q EXCEPT !.pc = "done", !.status = 401,
                            !.detail = "Token has expired",
                            !.diag = expiry_detail(token)]
             ELSE IF outcome # "ok"
             THEN [q EXCEPT !.pc = "done", !.status = 401, !.detail = "Invalid token"]
             ELSE IF token.claims.sub = 0
             THEN [q EXCEPT !.pc = "done", !.status = 401,
                            !.detail = "Token missing subject (sub) claim"]
             ELSE [q EXCEPT !.pc = "load", !.profile_id = token.claims.sub]]
    /\ UNCHANGED <<content, env, now, profiles, user_sessions_privacy, recovery_codes, tokCtr, rotated>>

\* mutant of profile_by_id: only a profile with a live session is found
profile_by_id_live_session(sub) ==
    {i \in Ids(profiles) :
        /\ i = sub
        /\ \E j \in Ids(user_sessions_privacy) :
              /\ user_sessions_privacy[j].profile_id = i
              /\ user_sessions_privacy[j].revoked = FALSE}

\* auth_dependencies.py 113: select(Profile).where(Profile.id == sub)
profile_by_id(sub) == {i \in Ids(profiles) : i = sub}

\* auth_dependencies.py 111-122: SELECT the profile and return it
get_current_user_load(r) ==
    /\ reqs[r].op = "get_current_user" /\ reqs[r].pc = "load"
    /\ LET found == profile_by_id(reqs[r].profile_id)
       IN reqs' = [reqs EXCEPT ![r] =
             IF found = {}
             THEN [reqs[r] EXCEPT !.pc = "done", !.status = 401,
                                  !.detail = "User not found"]
             ELSE [reqs[r] EXCEPT !.pc = "done",
                                  !.result = CHOOSE i \in found : TRUE]]
    /\ UNCHANGED <<content, env, now, profiles, user_sessions_privacy, recovery_codes, tokCtr, rotated>>

(* ---------------------------- organizations -------------------------- *)
\* names create_org is called with: two that slugify to the same slug
OrgNames == {"Acme Inc", "acme-inc"}

\* orgs_utils.py 7-12: lower-case, runs of other characters become one "-",
\* leading and trailing "-" are stripped, "org" for an empty result
slugify(name) ==
    IF name \in {"Acme Inc", "acme-inc", "ACME  inc."} THEN "acme-inc"
    ELSE IF name \in {"", "!!"} THEN "org"
    ELSE name

\* orgs_utils.py 19-27: the slug tried in turn i: base, then base-2, base-3
slug_candidate(base, i) == <<base, i>>

OrgBySlug(slug) == {o \in Ids(organizations) : organizations[o].slug = slug}

\* an INSERT of the key by another transaction is not committed yet: the
\* unique index makes this INSERT wait for it
InsertPendingByOther(r, op, key) ==
    \E o \in Req \ {r} :
        reqs[o].op = op /\ reqs[o].pc = "commit" /\ reqs[o].inserted = <<key>>

\* orgs_routes.py 144-148, orgs_utils.py 22-27: the first SELECT of
\* unique_slug, for the slug of the name
create_org(r, caller, name) ==
    /\ reqs[r].pc = "idle"
    /\ Len(organizations)
          + Cardinality({o \in Req : reqs[o].op = "create_org" /\ reqs[o].pc # "done"})
          < MaxOrgs
    /\ reqs' = [reqs EXCEPT ![r] =
           IF OrgBySlug(slug_candidate(slugify(name), 1)) = {}
           THEN [Idle EXCEPT !.op = "create_org", !.pc = "write", !.profile_id = caller,
                     !.name = name, !.slug = slug_candidate(slugify(name), 1)]
           ELSE [Idle EXCEPT !.op = "create_org", !.pc = "slug", !.profile_id = caller,
                     !.name = name, !.slug = slug_candidate(slugify(name), 2)]]
    /\ UNCHANGED <<content, env, now, profiles, user_sessions_privacy, recovery_codes, tokCtr, rotated>>

\* orgs_utils.py 21-27: one more turn of the loop of unique_slug
create_org_slug(r) ==
    /\ reqs[r].op = "create_org" /\ reqs[r].pc = "slug"
    /\ reqs' = [reqs EXCEPT ![r] =
           IF OrgBySlug(reqs[r].slug) = {}
           THEN [reqs[r] EXCEPT !.pc = "write"]
           ELSE [reqs[r] EXCEPT !.slug = slug_candidate(reqs[r].slug[1], reqs[r].slug[2] + 1)]]
    /\ UNCHANGED <<content, env, now, profiles, user_sessions_privacy, recovery_codes, tokCtr, rotated>>

\* orgs_routes.py 150-159: flush the INSERT of the organization; the unique
\* index on slug raises IntegrityError, which is rolled back and re-raised
create_org_flush(r) ==
    /\ reqs[r].op = "create_org" /\ reqs[r].pc = "write"
    /\ ~InsertPendingByOther(r, "create_org", reqs[r].slug)
    /\ reqs' = [reqs EXCEPT ![r] =
           IF OrgBySlug(reqs[r].slug) # {}
           THEN [Fail(500, "Internal Server Error")
                   EXCEPT !.op = "create_org", !.profile_id = reqs[r].profile_id,
                          !.name = reqs[r].name, !.slug = reqs[r].slug]
           ELSE [reqs[r] EXCEPT !.pc = "commit", !.inserted = <<reqs[r].slug>>]]
    /\ UNCHANGED <<content, env, now, profiles, user_sessions_privacy, recovery_codes, tokCtr, rotated>>

\* orgs_routes.py 150-157: the row of the organization
organization_row(q) ==
    [slug |-> q.slug, name |-> q.name, created_by |-> q.profile_id,
     members_count |-> 1, personalities_count |-> 0, reviews_count |-> 0]

\* orgs_routes.py 161-171: INSERT the creator's membership, COMMIT, 201
create_org_commit(r) ==
    /\ reqs[r].op = "create_org" /\ reqs[r].pc = "commit"
    /\ organizations' = Append(organizations, organization_row(reqs[r]))
    /\ org_memberships' = Append(org_memberships,
           [org_id |-> Len(organizations) + 1, member_id |-> reqs[r].profile_id,
            role |-> "creator"])
    /\ reqs' = [reqs EXCEPT ![r].pc = "done", ![r].status = 201, ![r].inserted = <<>>,
                            ![r].org = Len(organizations) + 1]
    /\ UNCHANGED <<env, now, profiles, user_sessions_privacy, recovery_codes, tokCtr, rotated,
                   personalities, reviews, listing>>

\* slugs a client can name: those of the organizations, and one of none
PresentableSlugs == {organizations[o].slug : o \in Ids(organizations)} \cup {<<"none", 1>>}

\* orgs_routes.py 190-194: SELECT the organization by slug
join_org(r, caller, slug) ==
    /\ reqs[r].pc = "idle"
    /\ reqs' = [reqs EXCEPT ![r] =
           IF OrgBySlug(slug) = {}
           THEN [Fail(404, "Organization not found")
                   EXCEPT !.op = "join_org", !.profile_id = caller, !.slug = slug]
           ELSE [Idle EXCEPT !.op = "join_org", !.pc = "exists", !.profile_id = caller,
                     !.slug = slug, !.org = CHOOSE o \in OrgBySlug(slug) : TRUE]]
    /\ UNCHANGED <<content, env, now, profiles, user_sessions_privacy, recovery_codes, tokCtr, rotated>>

\* orgs_routes.py 196-203: WHERE org_id == org.id AND member_id == profile_id
MembershipOf(org_id, member_id) ==
    {m \in Ids(org_memberships) :
        org_memberships[m].org_id = org_id /\ org_memberships[m].member_id = member_id}

\* orgs_routes.py 196-206: SELECT the membership; a member is told so
join_org_exists(r) ==
    /\ reqs[r].op = "join_org" /\ reqs[r].pc = "exists"
    /\ reqs' = [reqs EXCEPT ![r] =
           IF MembershipOf(reqs[r].org, reqs[r].profile_id) # {}
           THEN [reqs[r] EXCEPT !.pc = "done", !.status = 200, !.detail = "Already a member"]
           ELSE [reqs[r] EXCEPT !.pc = "write"]]
    /\ UNCHANGED <<content, env, now, profiles, user_sessions_privacy, recovery_codes, tokCtr, rotated>>

\* mutant of uniq_org_member: the constraint is missing
uniq_org_member_missing(org_id, member_id) == FALSE

\* models.py 101: UniqueConstraint("org_id", "member_id"): the INSERT of the
\* pair is refused
uniq_org_member(org_id, member_id) ==
    \E m \in Ids(org_memberships) :
        org_memberships[m].org_id = org_id /\ org_memberships[m].member_id = member_id

\* orgs_routes.py 208-221: the autoflush INSERTs the membership (it waits for
\* an uncommitted INSERT of the same pair and is refused if the pair is
\* committed: IntegrityError, rolled back and re-raised), then the UPDATE of
\* members_count waits for the lock of the organization's row and keeps it
join_org_write(r) ==
    /\ reqs[r].op = "join_org" /\ reqs[r].pc = "write"
    /\ ~InsertPendingByOther(r, "join_org", <<reqs[r].org, reqs[r].profile_id>>)
    /\ ~LockedByOther(r, <<"organizations", reqs[r].org>>)
    /\ reqs' = [reqs EXCEPT ![r] =
           IF uniq_org_member(reqs[r].org, reqs[r].profile_id)
           THEN [Fail(500, "Internal Server Error")
                   EXCEPT !.op = "join_org", !.profile_id = reqs[r].profile_id,
                          !.slug = reqs[r].slug, !.org = reqs[r].org]
           ELSE [reqs[r] EXCEPT !.pc = "commit",
                    !.inserted = << <<reqs[r].org, reqs[r].profile_id>> >>,
                    !.locked = {<<"organizations", reqs[r].org>>}]]
    /\ UNCHANGED <<content, env, now, profiles, user_sessions_privacy, recovery_codes, tokCtr, rotated>>

\* orgs_routes.py 217-221: SET members_count = members_count + 1, evaluated
\* by the database on the locked row
join_members_count(organization) == organization.members_count + 1

\* orgs_routes.py 223-224: COMMIT, 200
join_org_commit(r) ==
    /\ reqs[r].op = "join_org" /\ reqs[r].pc = "commit"
    /\ org_memberships' = Append(org_memberships,
           [org_id |-> reqs[r].org, member_id |-> reqs[r].profile_id, role |-> "member"])
    /\ organizations' = [organizations EXCEPT ![reqs[r].org].members_count =
                            join_members_count(organizations[reqs[r].org])]
    /\ reqs' = [reqs EXCEPT ![r].pc = "done", ![r].status = 200, ![r].detail = "Joined",
                            ![r].inserted = <<>>, ![r].locked = {}]
    /\ UNCHANGED <<env, now, profiles, user_sessions_privacy, recovery_codes, tokCtr, rotated,
                   personalities, reviews, listing>>

(* ------------------------------ reviews ------------------------------- *)
\* The handlers of review_routes.py and delete_personality_by_slug are each
\* one step: the claims about them speak of requests served one after the
\* other.  average_review is written by these handlers and read by no guard;
\* its value is left out, the division that computes it is kept (it raises
\* ZeroDivisionError for a divisor of 0).

\* schemas.py 224-244: rating is optional, 1..5 when given; body is a text
Ratings == {NULL, 2, 5}
Bodies == {"first", "edited"}
PersonalitySlugs == {"ada", "bob-ross"}

\* review_routes.py 53-58
is_org_member(org_id, profile_id) == MembershipOf(org_id, profile_id) # {}

\* mutant of is_org_moderator: every member moderates
is_org_moderator_any_member(org_id, profile_id) == MembershipOf(org_id, profile_id) # {}

\* review_routes.py 61-67
is_org_moderator(org_id, profile_id) ==
    \E m \in MembershipOf(org_id, profile_id) :
        org_memberships[m].role \in {"creator", "moderator"}

\* review_routes.py 70-87: the personality of the two slugs of the path
resolve_personality_by_slugs(org_slug, personality_slug) ==
    {p \in DOMAIN personalities :
        /\ organizations[personalities[p].org_id].slug = org_slug
        /\ personalities[p].slug = personality_slug}

\* the reviews of a personality (reviews.personality_id)
ReviewsOf(p) == {v \in DOMAIN reviews : reviews[v].personality_id = p}

\* the id of the next review: ids are generated, the model takes the first
\* one not in use
new_review_id == CHOOSE v \in 1..MaxReviews : v \notin DOMAIN reviews

\* the response of a handler that is one step
Answer(op, caller, row, code, detail) ==
    [Idle EXCEPT !.op = op, !.pc = "done", !.profile_id = caller, !.row = row,
                 !.status = code, !.detail = detail]

\* review_routes.py 119-137: total_reviews after a rated review is added
create_total_reviews(personality) == personality.total_reviews + 1

\* review_routes.py 98-158: POST /orgs/{org_slug}/personalities/{slug}/reviews
create_review_for_personality(r, caller, org_slug, personality_slug, rating, body) ==
    /\ reqs[r].pc = "idle"
    /\ LET found == resolve_personality_by_slugs(org_slug, personality_slug)
           p == CHOOSE x \in found : TRUE
       IN  IF found = {}
           THEN /\ reqs' = [reqs EXCEPT ![r] =
                       Answer("create_review", caller, 0, 404, "Personality not found")]
                /\ UNCHANGED <<organizations, personalities, reviews>>
           ELSE IF ~is_org_member(personalities[p].org_id, caller)
           THEN /\ reqs' = [reqs EXCEPT ![r] =
                       [Answer("create_review", caller, 0, 403,
                               "Only members of the organization can create reviews")
                          EXCEPT !.org = personalities[p].org_id]]
                /\ UNCHANGED <<organizations, personalities, reviews>>
           ELSE /\ Cardinality(DOMAIN reviews) < MaxReviews
                /\ reviews' =
                       [v \in DOMAIN reviews \cup {new_review_id} |->
                           IF v = new_review_id
                           THEN [personality_id |-> p, author_id |-> caller,
                                 body |-> body, rating |-> rating, created_at |-> now]
                           ELSE reviews[v]]
                /\ personalities' =
                       IF rating # NULL
                       THEN [personalities EXCEPT ![p].total_reviews =
                                create_total_reviews(personalities[p])]
                       ELSE personalities
                /\ organizations' =
                       [organizations EXCEPT ![personalities[p].org_id].reviews_count = @ + 1]
                /\ reqs' = [reqs EXCEPT ![r] =
                       [Answer("create_review", caller, new_review_id, 201, "")
                          EXCEPT !.org = personalities[p].org_id]]
    /\ UNCHANGED <<env, now, profiles, user_sessions_privacy, recovery_codes, tokCtr, rotated,
                   org_memberships, listing>>

\* review_routes.py 278-292: the new average is divided by total_reviews as
\* stored, which the handler leaves as it is; a total of 0 raises
update_divides_by_zero(personality) == personality.total_reviews = 0

\* review_routes.py 256-311: PATCH /reviews/{review_id}; a field that is not
\* given (None) is left alone, so a rating cannot be taken away
update_review(r, caller, review_id, rating, body) ==
    /\ reqs[r].pc = "idle"
    /\ IF review_id \notin DOMAIN reviews
       THEN /\ reqs' = [reqs EXCEPT ![r] =
                   Answer("update_review", caller, review_id, 404, "Review not found")]
            /\ UNCHANGED reviews
       ELSE IF reviews[review_id].author_id # caller
       THEN /\ reqs' = [reqs EXCEPT ![r] =
                   Answer("update_review", caller, review_id, 403, "Not authorized")]
            /\ UNCHANGED reviews
       ELSE IF /\ rating # NULL /\ rating # reviews[review_id].rating
               /\ update_divides_by_zero(personalities[reviews[review_id].personality_id])
       THEN /\ reqs' = [reqs EXCEPT ![r] =
                   Answer("update_review", caller, review_id, 500, "Failed to update review")]
            /\ UNCHANGED reviews
       ELSE /\ reviews' = [reviews EXCEPT
                   ![review_id].rating = IF rating # NULL THEN rating ELSE @,
                   ![review_id].body = IF body # "" THEN body ELSE @]
            /\ reqs' = [reqs EXCEPT ![r] =
                   Answer("update_review", caller, review_id, 200, "")]
    /\ UNCHANGED <<env, now, profiles, user_sessions_privacy, recovery_codes, tokCtr, rotated,
                   organizations, org_memberships, personalities, listing>>

\* review_routes.py 340-361: total_reviews after a rated review is removed
delete_total_reviews(personality) ==
    IF personality.total_reviews <= 1 THEN 0 ELSE personality.total_reviews - 1

\* review_routes.py 319-377: DELETE /reviews/{review_id}
delete_review(r, caller, review_id) ==
    /\ reqs[r].pc = "idle"
    /\ IF review_id \notin DOMAIN reviews
       THEN /\ reqs' = [reqs EXCEPT ![r] =
                   Answer("delete_review", caller, review_id, 404, "Review not found")]
            /\ UNCHANGED <<organizations, personalities, reviews>>
       ELSE LET review == reviews[review_id]
                p == review.personality_id
            IN  IF ~(\/ review.author_id = caller
                     \/ is_org_moderator(personalities[p].org_id, caller))
                THEN /\ reqs' = [reqs EXCEPT ![r] =
                            Answer("delete_review", caller, review_id, 403, "Not authorized")]
                     /\ UNCHANGED <<organizations, personalities, reviews>>
                ELSE /\ personalities' =
                            IF review.rating # NULL
                            THEN [personalities EXCEPT ![p].total_reviews =
                                     delete_total_reviews(personalities[p])]
                            ELSE personalities
                     /\ reviews' = [v \in DOMAIN reviews \ {review_id} |-> reviews[v]]
                     /\ organizations' =
                            [organizations EXCEPT
                                ![personalities[p].org_id].reviews_count = @ - 1]
                     /\ reqs' = [reqs EXCEPT ![r] =
                            Answer("delete_review", caller, review_id, 204, "")]
    /\ UNCHANGED <<env, now, profiles, user_sessions_privacy, recovery_codes, tokCtr, rotated,
                   org_memberships, listing>>

\* auth_dependencies.py 181-187: the caller's role in the organization is one
\* of the allowed ones
has_org_role(org_id, profile_id, allowed_roles) ==
    \E m \in MembershipOf(org_id, profile_id) : org_memberships[m].role \in allowed_roles

\* personalities_routes.py 220-259: DELETE /orgs/{org_slug}/personalities/{slug};
\* the ORM deletes the reviews of the personality with it (models.py 140,
\* cascade "all, delete-orphan"); the UPDATE of the organization names
\* personalities_count alone
delete_personality_by_slug(r, caller, org_slug, personality_slug) ==
    /\ reqs[r].pc = "idle"
    /\ LET found == resolve_personality_by_slugs(org_slug, personality_slug)
           p == CHOOSE x \in found : TRUE
       IN  IF OrgBySlug(org_slug) = {}
           THEN /\ reqs' = [reqs EXCEPT ![r] =
                       Answer("delete_personality", caller, 0, 404, "Organization not found")]
                /\ UNCHANGED <<organizations, personalities, reviews>>
           ELSE IF found = {}
           THEN /\ reqs' = [reqs EXCEPT ![r] =
                       Answer("delete_personality", caller, 0, 404, "Personality not found")]
                /\ UNCHANGED <<organizations, personalities, reviews>>
           ELSE IF ~is_org_member(personalities[p].org_id, caller)
           THEN /\ reqs' = [reqs EXCEPT ![r] =
                       Answer("delete_personality", caller, p, 403,
                              "Not a member of the organization")]
                /\ UNCHANGED <<organizations, personalities, reviews>>
           ELSE IF ~has_org_role(personalities[p].org_id, caller, {"creator", "moderator"})
           THEN /\ reqs' = [reqs EXCEPT ![r] =
                       Answer("delete_personality", caller, p, 403, "Insufficient permissions")]
                /\ UNCHANGED <<organizations, personalities, reviews>>
           ELSE /\ personalities' = [x \in DOMAIN personalities \ {p} |-> personalities[x]]
                /\ reviews' = [v \in DOMAIN reviews \ ReviewsOf(p) |-> reviews[v]]
                /\ organizations' =
                       [organizations EXCEPT
                           ![personalities[p].org_id].personalities_count = @ - 1]
                /\ reqs' = [reqs EXCEPT ![r] =
                       Answer("delete_personality", caller, p, 204, "")]
    /\ UNCHANGED <<env, now, profiles, user_sessions_privacy, recovery_codes, tokCtr, rotated,
                   org_memberships, listing>>

(* ------------------------------ listing ------------------------------- *)
\* page sizes the client asks for (limit: 1..100 in the code)
Limits == 1..MaxLimit
Sorts == {"newest", "oldest", "rating_desc", "rating_asc"}
\* rating_min and rating_max of the query: not given, or 3
RatingBounds == {NULL, 3}

\* review_routes.py 36-38: the text "<created_at.isoformat()>|<id>" in base64
_encode_cursor(created_at, review_id) == [b64 |-> <<created_at, review_id>>]

\* review_routes.py 41-47: the two parts of the decoded text, parsed back
_decode_cursor(cursor) == cursor.b64

\* review_routes.py 201-206: the rows of the personality within the rating
\* bounds given; a comparison with a NULL rating is not true
list_where(personality_id, rating_min, rating_max) ==
    {v \in ReviewsOf(personality_id) :
        /\ rating_min # NULL => (reviews[v].rating # NULL /\ reviews[v].rating >= rating_min)
        /\ rating_max # NULL => (reviews[v].rating # NULL /\ reviews[v].rating <= rating_max)}

\* review_routes.py 217-222: the rows before the cursor, whatever the sort
list_after_cursor(rows, cursor) ==
    IF cursor = <<>> THEN rows
    ELSE LET created_at_cur == _decode_cursor(cursor)[1]
             id_cur == _decode_cursor(cursor)[2]
         IN  {v \in rows :
                 \/ reviews[v].created_at < created_at_cur
                 \/ reviews[v].created_at = created_at_cur /\ v < id_cur}

\* review_routes.py 208-215: ORDER BY puts row a before row b
list_order_by(sort, a, b) ==
    LET ra == reviews[a].rating
        rb == reviews[b].rating
        ca == reviews[a].created_at
        cb == reviews[b].created_at
    IN  CASE sort = "newest" -> ca > cb \/ (ca = cb /\ a > b)
          [] sort = "oldest" -> ca < cb \/ (ca = cb /\ a < b)
          [] sort = "rating_desc" ->
                \/ ra # NULL /\ rb = NULL
                \/ ra # NULL /\ rb # NULL /\ ra > rb
                \/ ra = rb /\ ca > cb
          [] sort = "rating_asc" ->
                \/ ra = NULL /\ rb # NULL
                \/ ra # NULL /\ rb # NULL /\ ra < rb
                \/ ra = rb /\ ca > cb

\* the orders the database can return the rows in: rows the ORDER BY does
\* not tell apart come in any order
list_rows(rows, sort) ==
    {f \in [1..Cardinality(rows) -> rows] :
        /\ \A i, j \in 1..Cardinality(rows) : i # j => f[i] # f[j]
        /\ \A i, j \in 1..Cardinality(rows) : i < j => ~list_order_by(sort, f[j], f[i])}

\* review_routes.py 224-231: LIMIT limit + 1; the cursor of the last row kept
\* when one more row came
list_next_cursor(rows, limit) ==
    IF Len(rows) > limit
    THEN _encode_cursor(reviews[rows[limit]].created_at, rows[limit])
    ELSE <<>>

list_items(rows, limit) == IF Len(rows) > limit THEN SubSeq(rows, 1, limit) ELSE rows

\* review_routes.py 189-253: GET .../reviews, one page; the client keeps the
\* items and follows next_cursor
list_page(sort, limit, rating_min, rating_max, cursor) ==
    \E all \in list_rows(list_after_cursor(list_where(1, rating_min, rating_max), cursor), sort) :
        LET rows == IF Len(all) > limit + 1 THEN SubSeq(all, 1, limit + 1) ELSE all
        IN  listing' = [sort |-> sort, limit |-> limit,
                        rating_min |-> rating_min, rating_max |-> rating_max,
                        cursor |-> list_next_cursor(rows, limit),
                        items |-> listing.items \o list_items(rows, limit),
                        pc |-> IF list_next_cursor(rows, limit) = <<>> THEN "end" ELSE "more"]

\* the first page: no cursor
list_reviews_for_personality(sort, limit, rating_min, rating_max) ==
    /\ listing.pc = "idle"
    /\ list_page(sort, limit, rating_min, rating_max, <<>>)
    /\ UNCHANGED <<env, now, profiles, user_sessions_privacy, recovery_codes, tokCtr, reqs,
                   rotated, organizations, org_memberships, personalities, reviews>>

\* the next page: the same query with the next_cursor of the last response
list_follow_cursor ==
    /\ listing.pc = "more"
    /\ list_page(listing.sort, listing.limit, listing.rating_min, listing.rating_max,
                 listing.cursor)
    /\ UNCHANGED <<env, now, profiles, user_sessions_privacy, recovery_codes, tokCtr, reqs,
                   rotated, organizations, org_memberships, personalities, reviews>>

(* ------------------------------- system ------------------------------- *)
\* the requests that read and write user_sessions_privacy
NextSession ==
    \/ Tick
    \/ \E r \in Req : Return(r)
    \/ \E r \in Req, u \in Usernames, pw \in LoginPasswords : login_select(r, u, pw)
    \/ \E r \in Req : login_commit(r)
    \/ \E r \in Req, t \in Presentable : refresh_select(r, t)
    \/ \E r \in Req : refresh_load_profile(r)
    \/ \E r \in Req : refresh_update(r)
    \/ \E r \in Req : refresh_commit(r)
    \/ \E r \in Req, t \in Presentable : logout_update(r, t)
    \/ \E r \in Req : logout_resume(r)
    \/ \E r \in Req : logout_commit(r)

\* the requests that read and write profiles and recovery_codes
NextAccount ==
    \/ Tick
    \/ \E r \in Req : Return(r)
    \/ \E r \in Req, u \in RegisterNames, pw \in RegPasswords : register_profile(r, u, pw)
    \/ \E r \in Req : register_insert_code(r)
    \/ \E r \in Req : register_codes(r)
    \/ \E r \in Req, u \in Usernames, pw \in LoginPasswords : login_select(r, u, pw)
    \/ \E r \in Req : login_commit(r)
    \/ \E r \in Req, c \in PresentableCodes, pw \in NewPasswords : recover_scan(r, c, pw)
    \/ \E r \in Req : recover_load_profile(r)
    \/ \E r \in Req : recover_update(r)
    \/ \E r \in Req : recover_commit(r)

\* logins and rotations when the token generator is only random
NextCollide ==
    \/ Tick
    \/ \E r \in Req : Return(r)
    \/ \E r \in Req, u \in Usernames, pw \in LoginPasswords : login_select_random(r, u, pw)
    \/ \E r \in Req : login_commit(r)
    \/ \E r \in Req, t \in Presentable : refresh_select(r, t)
    \/ \E r \in Req : refresh_load_profile_random(r)
    \/ \E r \in Req : refresh_update(r)
    \/ \E r \in Req : refresh_commit(r)

\* the session lifecycle and the requests that present an access token
NextAccess ==
    \/ NextSession
    \/ \E r \in Req, token \in AccessTokens : get_current_user_decode(r, token)
    \/ \E r \in Req : get_current_user_load(r)

\* logins and rotations of the sessions of two registered profiles
OwnerNames == {"alice", "bob"}

NextOwner ==
    \/ Tick
    \/ \E r \in Req : Return(r)
    \/ \E r \in Req, u \in OwnerNames, pw \in LoginPasswords : login_select(r, u, pw)
    \/ \E r \in Req : login_commit(r)
    \/ \E r \in Req, t \in Presentable : refresh_select(r, t)
    \/ \E r \in Req : refresh_load_profile(r)
    \/ \E r \in Req : refresh_update(r)
    \/ \E r \in Req : refresh_commit(r)

\* logins, rotations and recoveries while the account is deleted
NextVanish ==
    \/ \E r \in Req : Return(r)
    \/ \E r \in Req, u \in RegUsernames, pw \in LoginPasswords : login_select(r, u, pw)
    \/ \E r \in Req : login_commit(r)
    \/ \E r \in Req, t \in Presentable : refresh_select(r, t)
    \/ \E r \in Req : refresh_load_profile(r)
    \/ \E r \in Req : refresh_update(r)
    \/ \E r \in Req : refresh_commit(r)
    \/ \E r \in Req, c \in PresentableCodes, pw \in NewPasswords : recover_scan(r, c, pw)
    \/ \E r \in Req : recover_load_profile(r)
    \/ \E r \in Req : recover_update(r)
    \/ \E r \in Req : recover_commit(r)
    \/ delete_profile

\* recovery codes the owners of InitTwoRegistered can present, and an
\* unknown one (0)
OwnerCodes ==
    {0} \cup {c \in 1..(2 * RECOVERY_CODE_COUNT) :
                \E i \in Ids(recovery_codes) :
                    verify_recovery_code(c, recovery_codes[i].code_hash)}

\* password resets of two registered profiles
NextOwnerReset ==
    \/ Tick
    \/ \E r \in Req : Return(r)
    \/ \E r \in Req, c \in OwnerCodes, pw \in NewPasswords : recover_scan(r, c, pw)
    \/ \E r \in Req : recover_load_profile(r)
    \/ \E r \in Req : recover_update(r)
    \/ \E r \in Req : recover_commit(r)

\* the profiles that call the review domain: alice and bob
Callers == {2, 3}

\* organizations created and joined
NextOrgs ==
    \/ \E r \in Req : Return(r)
    \/ \E r \in Req, caller \in Callers, name \in OrgNames : create_org(r, caller, name)
    \/ \E r \in Req : create_org_slug(r)
    \/ \E r \in Req : create_org_flush(r)
    \/ \E r \in Req : create_org_commit(r)
    \/ \E r \in Req, caller \in Callers, slug \in PresentableSlugs : join_org(r, caller, slug)
    \/ \E r \in Req : join_org_exists(r)
    \/ \E r \in Req : join_org_write(r)
    \/ \E r \in Req : join_org_commit(r)

\* logins and rotations beside password resets
NextReset ==
    \/ Tick
    \/ \E r \in Req : Return(r)
    \/ \E r \in Req, u \in RegUsernames, pw \in LoginPasswords : login_select(r, u, pw)
    \/ \E r \in Req : login_commit(r)
    \/ \E r \in Req, t \in Presentable : refresh_select(r, t)
    \/ \E r \in Req : refresh_load_profile(r)
    \/ \E r \in Req : refresh_update(r)
    \/ \E r \in Req : refresh_commit(r)
    \/ \E r \in Req, c \in PresentableCodes, pw \in NewPasswords : recover_scan(r, c, pw)
    \/ \E r \in Req : recover_load_profile(r)
    \/ \E r \in Req : recover_update(r)
    \/ \E r \in Req : recover_commit(r)

\* the session lifecycle while the account is deleted
NextOrphan ==
    \/ Tick
    \/ \E r \in Req : Return(r)
    \/ \E r \in Req, u \in RegUsernames, pw \in LoginPasswords : login_select(r, u, pw)
    \/ \E r \in Req : login_commit(r)
    \/ \E r \in Req, t \in Presentable : refresh_select(r, t)
    \/ \E r \in Req : refresh_load_profile(r)
    \/ \E r \in Req : refresh_update(r)
    \/ \E r \in Req : refresh_commit(r)
    \/ \E r \in Req, t \in Presentable : logout_update(r, t)
    \/ \E r \in Req : logout_resume(r)
    \/ \E r \in Req : logout_commit(r)
    \/ delete_profile

\* logins and recoveries
NextMalformed ==
    \/ Tick
    \/ \E r \in Req : Return(r)
    \/ \E r \in Req, u \in Usernames, pw \in LoginPasswords : login_select(r, u, pw)
    \/ \E r \in Req : login_commit(r)
    \/ \E r \in Req, c \in PresentableCodes, pw \in NewPasswords : recover_scan(r, c, pw)
    \/ \E r \in Req : recover_load_profile(r)
    \/ \E r \in Req : recover_update(r)
    \/ \E r \in Req : recover_commit(r)

\* the requests a process without pepper can take up
NextNoPepper ==
    \/ Tick
    \/ \E r \in Req : Return(r)
    \/ \E r \in Req, u \in Usernames, pw \in LoginPasswords : login_select(r, u, pw)
    \/ \E r \in Req, t \in Presentable : refresh_select(r, t)
    \/ \E r \in Req, t \in Presentable : logout_update(r, t)

Next == NextAccess \/ NextAccount \/ NextVanish

\* the database once register("alice", "longpass") has been served at time 0
InitRegistered ==
    /\ now = 0
    /\ profiles = <<[username |-> "legacy", password_hash |-> NULL_HASH],
                    [username |-> "alice", password_hash |-> hash_password("longpass")]>>
    /\ user_sessions_privacy = <<>>
    /\ recovery_codes =
          [k \in 1..RECOVERY_CODE_COUNT |->
              [profile_id |-> 2, code_hash |-> hash_recovery_code(k),
               created_at |-> 0, expires_at |-> RecoveryTTL, consumed_at |-> NULL]]
    /\ tokCtr = 0
    /\ reqs = [r \in Req |-> Idle]
    /\ rotated = {}
    /\ env = Configured
    /\ NoContent

\* The whole subsystem.  Its state space is the product of the two halves
\* below, which share only the table profiles: login and refresh read it,
\* register and recover write it.
Spec == Init /\ [][Next]_vars

\* Session lifecycle: login, refresh and logout on a database that holds a
\* registered profile.  register and recover neither read nor write
\* user_sessions_privacy.
SpecSession == InitRegistered /\ [][NextSession]_vars

\* Accounts: register, login and recover from the initial database.  refresh
\* and logout neither read nor write profiles' password_hash or
\* recovery_codes.
SpecAccount == Init /\ [][NextAccount]_vars

\* Logins whose raw refresh token may repeat one issued before: nothing in
\* create_refresh_token_raw excludes it, and login handles the IntegrityError
\* of the unique index on refresh_token_hash.
SpecCollide == InitRegistered /\ [][NextCollide]_vars

\* the database once register("alice", "longpass") and then
\* register("bob", "newpass12") have been served at time 0
InitTwoRegistered ==
    /\ now = 0
    /\ profiles = <<[username |-> "legacy", password_hash |-> NULL_HASH],
                    [username |-> "alice", password_hash |-> hash_password("longpass")],
                    [username |-> "bob", password_hash |-> hash_password("newpass12")]>>
    /\ user_sessions_privacy = <<>>
    /\ recovery_codes =
          [k \in 1..(2 * RECOVERY_CODE_COUNT) |->
              [profile_id |-> IF k <= RECOVERY_CODE_COUNT THEN 2 ELSE 3,
               code_hash |-> hash_recovery_code(k),
               created_at |-> 0, expires_at |-> RecoveryTTL, consumed_at |-> NULL]]
    /\ tokCtr = 0
    /\ reqs = [r \in Req |-> Idle]
    /\ rotated = {}
    /\ env = Configured
    /\ NoContent

\* Ownership: logins and rotations when two profiles are registered.
SpecOwner == InitTwoRegistered /\ [][NextOwner]_vars

\* main.py 81-85, auth_utils.py 25-30: the process has started without
\* REFRESH_TOKEN_PEPPER in its environment: the import of auth_utils checks
\* APP_JWT_SECRET only and the startup hook creates the tables
InitNoPepper ==
    /\ now = 0
    /\ profiles = <<[username |-> "legacy", password_hash |-> NULL_HASH],
                    [username |-> "alice", password_hash |-> hash_password("longpass")]>>
    /\ user_sessions_privacy = <<>>
    /\ recovery_codes =
          [k \in 1..RECOVERY_CODE_COUNT |->
              [profile_id |-> 2, code_hash |-> hash_recovery_code(k),
               created_at |-> 0, expires_at |-> RecoveryTTL, consumed_at |-> NULL]]
    /\ tokCtr = 0
    /\ reqs = [r \in Req |-> Idle]
    /\ rotated = {}
    /\ env = [REFRESH_TOKEN_PEPPER |-> ""]
    /\ NoContent

\* the database of InitRegistered when the pre-migration profile "legacy"
\* carries a hash another system wrote, and one recovery code of it too
InitMalformed ==
    /\ now = 0
    /\ profiles = <<[username |-> "legacy", password_hash |-> MALFORMED_HASH],
                    [username |-> "alice", password_hash |-> hash_password("longpass")]>>
    /\ user_sessions_privacy = <<>>
    /\ recovery_codes =
          [k \in 1..(RECOVERY_CODE_COUNT + 1) |->
              IF k <= RECOVERY_CODE_COUNT
              THEN [profile_id |-> 2, code_hash |-> hash_recovery_code(k),
                    created_at |-> 0, expires_at |-> RecoveryTTL, consumed_at |-> NULL]
              ELSE [profile_id |-> 1, code_hash |-> MALFORMED_HASH,
                    created_at |-> 0, expires_at |-> RecoveryTTL, consumed_at |-> NULL]]
    /\ tokCtr = 0
    /\ reqs = [r \in Req |-> Idle]
    /\ rotated = {}
    /\ env = Configured
    /\ NoContent

\* Malformed hashes: logins and recoveries over a database that holds a
\* stored hash bcrypt cannot parse.
SpecMalformed == InitMalformed /\ [][NextMalformed]_vars

\* Missing pepper: the requests served by a process started without it.
SpecNoPepper == InitNoPepper /\ [][NextNoPepper]_vars

\* Vanishing identity: requests in flight while the registered profile is
\* deleted from outside.
SpecVanish == InitRegistered /\ [][NextVanish]_vars

\* Password resets of two owners: recoveries when two profiles
\* are registered and each holds its recovery codes.
SpecOwnerReset == InitTwoRegistered /\ [][NextOwnerReset]_vars

\* Organizations: alice and bob create and join organizations.
SpecOrgs == InitTwoRegistered /\ [][NextOrgs]_vars

\* Password reset beside sessions: logins and rotations while recover
\* replaces the password of the registered profile.
SpecReset == InitRegistered /\ [][NextReset]_vars

\* Orphaned sessions: logins, rotations and logouts while the registered
\* profile is deleted from outside and the clock runs.
SpecOrphan == InitRegistered /\ [][NextOrphan]_vars

\* Access tokens: the session lifecycle together with get_current_user, the
\* dependency of every authenticated route.
SpecAccess == InitRegistered /\ [][NextAccess]_vars

\* the profiles that call the review routes: alice (a member), bob (the
\* creator of the organization) and carol (no member)
ReviewCallers == {2, 3, 4}

\* the handlers of the review routes being one step each, their requests
\* are served one after the other: one is taken when no response is waiting
Serial == \A o \in Req : reqs[o].pc = "idle"

\* reviews written, edited and deleted, personalities deleted
NextReviews ==
    \/ \E r \in Req : Return(r)
    \/ \E r \in Req, caller \in ReviewCallers, org_slug \in PresentableSlugs,
          personality_slug \in PersonalitySlugs, rating \in Ratings, body \in Bodies :
          Serial /\ create_review_for_personality(r, caller, org_slug, personality_slug, rating, body)
    \/ \E r \in Req, caller \in ReviewCallers, review_id \in 1..MaxReviews,
          rating \in Ratings, body \in Bodies \cup {""} :
          Serial /\ update_review(r, caller, review_id, rating, body)
    \/ \E r \in Req, caller \in ReviewCallers, review_id \in 1..MaxReviews :
          Serial /\ delete_review(r, caller, review_id)
    \/ \E r \in Req, caller \in ReviewCallers, org_slug \in PresentableSlugs,
          personality_slug \in PersonalitySlugs :
          Serial /\ delete_personality_by_slug(r, caller, org_slug, personality_slug)

\* the database once alice, bob and carol have registered, bob has created
\* the organization "Acme Inc" and its two personalities, and alice has
\* joined it
InitReviews ==
    /\ now = 0
    /\ profiles = <<[username |-> "legacy", password_hash |-> NULL_HASH],
                    [username |-> "alice", password_hash |-> hash_password("longpass")],
                    [username |-> "bob", password_hash |-> hash_password("newpass12")],
                    [username |-> "carol", password_hash |-> hash_password("longpass")]>>
    /\ user_sessions_privacy = <<>>
    /\ recovery_codes = <<>>
    /\ tokCtr = 0
    /\ reqs = [r \in Req |-> Idle]
    /\ rotated = {}
    /\ env = Configured
    /\ organizations =
          <<[slug |-> slug_candidate("acme-inc", 1), name |-> "Acme Inc", created_by |-> 3,
             members_count |-> 2, personalities_count |-> 2, reviews_count |-> 0]>>
    /\ org_memberships = <<[org_id |-> 1, member_id |-> 3, role |-> "creator"],
                           [org_id |-> 1, member_id |-> 2, role |-> "member"]>>
    /\ personalities = <<[org_id |-> 1, slug |-> "ada", total_reviews |-> 0],
                         [org_id |-> 1, slug |-> "bob-ross", total_reviews |-> 0]>>
    /\ reviews = <<>>
    /\ listing = NoListing

\* Reviews: alice, bob and carol write, edit and delete reviews of the two
\* personalities of one organization, and delete the personalities.
SpecReviews == InitReviews /\ [][NextReviews]_vars

\* a client reads the reviews of a personality page by page
NextListing ==
    \/ \E sort \in Sorts, limit \in Limits, rating_min \in RatingBounds, rating_max \in RatingBounds :
          list_reviews_for_personality(sort, limit, rating_min, rating_max)
    \/ list_follow_cursor

\* the database of InitReviews once MaxListed reviews of the first
\* personality have been created, at any times and with any ratings
InitListing ==
    /\ now = MaxTime
    /\ profiles = <<[username |-> "legacy", password_hash |-> NULL_HASH],
                    [username |-> "alice", password_hash |-> hash_password("longpass")],
                    [username |-> "bob", password_hash |-> hash_password("newpass12")],
                    [username |-> "carol", password_hash |-> hash_password("longpass")]>>
    /\ user_sessions_privacy = <<>>
    /\ recovery_codes = <<>>
    /\ tokCtr = 0
    /\ reqs = [r \in Req |-> Idle]
    /\ rotated = {}
    /\ env = Configured
    /\ org_memberships = <<[org_id |-> 1, member_id |-> 3, role |-> "creator"],
                           [org_id |-> 1, member_id |-> 2, role |-> "member"]>>
    /\ reviews \in [1..MaxListed ->
                      [personality_id : {1}, author_id : {2}, body : {"first"},
                       rating : Ratings, created_at : 0..MaxTime]]
    /\ organizations =
          <<[slug |-> slug_candidate("acme-inc", 1), name |-> "Acme Inc", created_by |-> 3,
             members_count |-> 2, personalities_count |-> 2, reviews_count |-> MaxListed]>>
    /\ personalities =
          <<[org_id |-> 1, slug |-> "ada",
             total_reviews |-> Cardinality({v \in 1..MaxListed : reviews[v].rating # NULL})],
            [org_id |-> 1, slug |-> "bob-ross", total_reviews |-> 0]>>
    /\ listing = NoListing

\* Listing: the reviews of a personality are read page by page while no
\* review is written.
SpecListing == InitListing /\ [][NextListing]_vars

\* InitRegistered is a state of the program
InitRegisteredReached ==
    /\ now = 0 /\ tokCtr = 0
    /\ reqs = [r \in Req |-> Idle]
    /\ user_sessions_privacy = <<>>
    /\ Len(profiles) = 2 /\ profiles[2] = [username |-> "alice", password_hash |-> hash_password("longpass")]
    /\ Len(recovery_codes) = RECOVERY_CODE_COUNT
    /\ \A k \in Ids(recovery_codes) :
          recovery_codes[k] = [profile_id |-> 2, code_hash |-> hash_recovery_code(k),
               created_at |-> 0, expires_at |-> RecoveryTTL, consumed_at |-> NULL]
NotInitRegistered == ~InitRegisteredReached

(* ============================== claims ================================ *)
\* a served refresh request whose SELECT found its token live: an unrevoked,
\* unexpired row held the token's digest
RefreshSawLive(q) ==
    /\ q.op = "refresh" /\ q.pc = "done"
    /\ q.row # 0 /\ q.detail # "Refresh token expired"

\* request r takes its step from pc `from` to pc `to`
Steps(r, op, from, to) ==
    /\ reqs[r].pc = from /\ reqs'[r].pc = to /\ reqs'[r].op = op
    /\ from = "idle" \/ reqs[r].op = op

\* the raw token t is accepted: an unrevoked, unexpired row holds its digest
Accepted(t) ==
    \E i \in Sessions :
        /\ user_sessions_privacy[i].refresh_token_hash = hmac_refresh_token_hex(t)
        /\ user_sessions_privacy[i].revoked = FALSE
        /\ user_sessions_privacy[i].expires_at >= now

\* C1: of two refresh requests that presented the same refresh token and both
\* found it live, exactly one is answered 200 and the other 401.
C1_OneWinner ==
    \A a, b \in Req :
        (/\ a # b
         /\ RefreshSawLive(reqs[a]) /\ RefreshSawLive(reqs[b])
         /\ reqs[a].token = reqs[b].token)
        => \/ reqs[a].status = 200 /\ reqs[b].status = 401
           \/ reqs[a].status = 401 /\ reqs[b].status = 200

\* C3: when refresh answers 200 its UPDATE has matched a row, and at that
\* moment an unrevoked session row holds the digest of the refresh token in
\* the response.
C3_ReturnedTokenIsStored ==
    [][\A r \in Req :
          (Steps(r, "refresh", "commit", "done") /\ reqs'[r].status = 200)
          => /\ reqs[r].rowcount > 0
             /\ \E i \in Sessions :
                   /\ user_sessions_privacy'[i].refresh_token_hash =
                         hmac_refresh_token_hex(reqs'[r].new_token)
                   /\ user_sessions_privacy'[i].revoked = FALSE]_vars

\* the raw token t is stored: an unrevoked row holds its digest
Stored(t) ==
    \E i \in Sessions :
        /\ user_sessions_privacy[i].refresh_token_hash = hmac_refresh_token_hex(t)
        /\ user_sessions_privacy[i].revoked = FALSE

\* request r starts a refresh in this step
RefreshStarts(r) == reqs[r].pc = "idle" /\ reqs'[r].op = "refresh"

\* C2: rotation round trip.  A token a committed rotation has replaced is
\* the digest of no row from then on, and every refresh presenting it is
\* answered 401; the rotation of an unrevoked row leaves the new token
\* stored in it; a refresh presenting an accepted token passes the lookup and
\* every refresh that passed the lookup is answered 200; and at most one raw
\* token is accepted for a session row.
C2_RotationRoundTrip ==
    [][/\ \A t \in rotated' : ~HashInUse(hmac_refresh_token_hex(t))'
       /\ \A r \in Req :
             (RefreshStarts(r) /\ reqs'[r].token \in rotated)
             => (reqs'[r].pc = "done" /\ reqs'[r].status = 401)
       /\ \A r \in Req :
             (/\ Steps(r, "refresh", "commit", "done")
              /\ reqs[r].rowcount = 1
              /\ \A i \in Sessions :
                    <<"user_sessions_privacy", i>> \in reqs[r].locked
                    => user_sessions_privacy[i].revoked = FALSE)
             => (reqs'[r].status = 200 /\ Stored(reqs[r].new_token)')
       /\ \A r \in Req :
             (RefreshStarts(r) /\ Accepted(reqs'[r].token)) => reqs'[r].pc = "load"
       /\ \A r \in Req :
             (reqs'[r].op = "refresh" /\ reqs'[r].pc = "done" /\ reqs'[r].new_token # 0)
             => reqs'[r].status = 200
       /\ \A i \in Sessions :
             Cardinality({t \in 0..MaxTokens :
                 /\ user_sessions_privacy'[i].refresh_token_hash = hmac_refresh_token_hex(t)
                 /\ user_sessions_privacy'[i].revoked = FALSE}) <= 1
      ]_vars

\* C2 witness: the token of a login was rotated, the refresh presenting the
\* new token was answered 200 and a refresh presenting the old one 401
C2_Witness ==
    \E a, b \in Req :
        /\ reqs[a].op = "refresh" /\ reqs[a].pc = "done" /\ reqs[a].status = 200
        /\ reqs[a].token = 2 /\ reqs[a].rowcount = 1 /\ rotated = {1, 2}
        /\ reqs[b].op = "refresh" /\ reqs[b].pc = "done" /\ reqs[b].status = 401
        /\ reqs[b].token = 1

\* C7: revocation is terminal.  No step sets revoked back to false, and a
\* refresh that starts when the row holding its token's digest is revoked is
\* answered 401.
C7_RevocationTerminal ==
    [][/\ \A i \in Sessions :
             user_sessions_privacy[i].revoked => user_sessions_privacy'[i].revoked
       /\ \A r \in Req :
             (/\ RefreshStarts(r)
              /\ \E i \in Sessions :
                    /\ user_sessions_privacy[i].refresh_token_hash =
                          hmac_refresh_token_hex(reqs'[r].token)
                    /\ user_sessions_privacy[i].revoked)
             => (reqs'[r].pc = "done" /\ reqs'[r].status = 401)
      ]_vars

\* C7 witness: a refresh presenting the token of a revoked row was refused
C7_Witness ==
    \E r \in Req :
        /\ reqs[r].op = "refresh" /\ reqs[r].pc = "done" /\ reqs[r].status = 401
        /\ reqs[r].detail = "Invalid or revoked refresh token"
        /\ \E i \in Sessions :
              /\ user_sessions_privacy[i].refresh_token_hash =
                    hmac_refresh_token_hex(reqs[r].token)
              /\ user_sessions_privacy[i].revoked

\* C8: logout always answers 204; a logout whose token matches no row changes
\* no row; a logout of a token whose row is already revoked leaves every
\* revoked flag as it was.
C8_LogoutIdempotent ==
    [][\A r \in Req :
          Steps(r, "logout", "commit", "done")
          => /\ reqs'[r].status = 204
             /\ reqs[r].rowcount = 0 => user_sessions_privacy' = user_sessions_privacy
             /\ (\A i \in logout_where(hmac_refresh_token_hex(reqs[r].token)) :
                    user_sessions_privacy[i].revoked)
                => (\A i \in Sessions :
                       user_sessions_privacy'[i].revoked = user_sessions_privacy[i].revoked)
      ]_vars

\* C8 witness: two logouts of the same token have both matched its row, and a
\* logout of an unknown token has been served
C8_Witness ==
    \E a, b \in Req :
        /\ a # b
        /\ reqs[a].op = "logout" /\ reqs[a].pc = "done" /\ reqs[a].status = 204
        /\ reqs[b].op = "logout" /\ reqs[b].pc = "done" /\ reqs[b].status = 204
        /\ reqs[a].token = reqs[b].token /\ reqs[a].token # 0
        /\ reqs[a].rowcount = 1 /\ reqs[b].rowcount = 1

\* C9: a refresh presenting the token of an unrevoked session whose
\* expires_at is in the past is answered 401 at once and writes nothing.
C9_ExpiredNeverExtended ==
    [][\A r \in Req :
          (/\ RefreshStarts(r)
           /\ \E i \in Sessions :
                 /\ user_sessions_privacy[i].refresh_token_hash =
                       hmac_refresh_token_hex(reqs'[r].token)
                 /\ user_sessions_privacy[i].revoked = FALSE
                 /\ user_sessions_privacy[i].expires_at < now)
          => /\ reqs'[r].pc = "done" /\ reqs'[r].status = 401
             /\ reqs'[r].locked = {}
             /\ user_sessions_privacy' = user_sessions_privacy
      ]_vars

\* C9 witness: a refresh was refused as expired and its row is unrevoked
C9_Witness ==
    \E r \in Req :
        /\ reqs[r].op = "refresh" /\ reqs[r].pc = "done" /\ reqs[r].status = 401
        /\ reqs[r].detail = "Refresh token expired"
        /\ user_sessions_privacy[reqs[r].row].revoked = FALSE
        /\ user_sessions_privacy[reqs[r].row].expires_at < now
        /\ user_sessions_privacy[reqs[r].row].refresh_token_hash =
              hmac_refresh_token_hex(reqs[r].token)

\* request r starts a recover in this step
RecoverStarts(r) == reqs[r].pc = "idle" /\ reqs'[r].op = "recover"

\* the rows of recovery_codes the raw code c is the code of
CodeRows(c) ==
    {i \in Ids(recovery_codes) : verify_recovery_code(c, recovery_codes[i].code_hash)}

\* a code is active iff consumed_at is null and expires_at is null or in the
\* future
Active(i) ==
    /\ recovery_codes[i].consumed_at = NULL
    /\ recovery_codes[i].expires_at = NULL \/ recovery_codes[i].expires_at >= now

\* C4: two recover requests presenting the same recovery code are never both
\* answered 200.
C4_OneCodeOneReset ==
    \A a, b \in Req :
        (/\ a # b
         /\ reqs[a].op = "recover" /\ reqs[a].pc = "done"
         /\ reqs[b].op = "recover" /\ reqs[b].pc = "done"
         /\ reqs[a].code = reqs[b].code)
        => ~(reqs[a].status = 200 /\ reqs[b].status = 200)

\* C5: one-time use.  A recover with a valid password that starts when the
\* row of its code is consumed is answered 401; a recover with a valid password that starts
\* when the row of its code is active passes the scan, and every recover that
\* passed the scan is answered 200; a row of recovery_codes changes only in
\* the commit of a recover that presented the code of that row, so the other
\* codes of the batch stay as they are.
C5_OneTimeUse ==
    [][/\ \A r \in Req :
             (/\ RecoverStarts(r)
              /\ Len(reqs'[r].password) >= MinPasswordLen
              /\ \E i \in CodeRows(reqs'[r].code) : recovery_codes[i].consumed_at # NULL)
             => (reqs'[r].pc = "done" /\ reqs'[r].status = 401)
       /\ \A r \in Req :
             (/\ RecoverStarts(r)
              /\ Len(reqs'[r].password) >= MinPasswordLen
              /\ \E i \in CodeRows(reqs'[r].code) : Active(i))
             => reqs'[r].pc = "load"
       /\ \A r \in Req :
             (/\ reqs'[r].op = "recover" /\ reqs'[r].pc = "done"
              /\ reqs'[r].row # 0 /\ reqs'[r].detail # "Recovery code expired")
             => reqs'[r].status = 200
       /\ \A i \in Ids(recovery_codes) :
             recovery_codes'[i] # recovery_codes[i]
             => \E r \in Req :
                   /\ Steps(r, "recover", "commit", "done")
                   /\ i \in CodeRows(reqs[r].code)
      ]_vars

\* C5 witness: code 1 has been used, a second recover with code 1 has been
\* refused, and code 2 of the same batch is still active
C5_Witness ==
    \E a, b \in Req :
        /\ reqs[a].op = "recover" /\ reqs[a].pc = "done" /\ reqs[a].status = 200
        /\ reqs[a].code = 1
        /\ reqs[b].op = "recover" /\ reqs[b].pc = "done" /\ reqs[b].status = 401
        /\ reqs[b].code = 1 /\ Len(reqs[b].password) >= MinPasswordLen
        /\ recovery_codes[1].consumed_at # NULL
        /\ recovery_codes[2].profile_id = recovery_codes[1].profile_id
        /\ Active(2)

\* C6: recover answers 200 only for a code whose row is unconsumed when it
\* is consumed; a recover with a valid password whose code matches no row, a
\* consumed row or an expired row is answered 401 and changes no recovery
\* code and no password_hash; a consumed row is never unconsumed again.
C6_OnlyActiveCodes ==
    [][/\ \A r \in Req :
             (Steps(r, "recover", "commit", "done") /\ reqs'[r].status = 200)
             => /\ reqs[r].row \in CodeRows(reqs[r].code)
                /\ recovery_codes[reqs[r].row].consumed_at = NULL
       /\ \A r \in Req :
             (/\ RecoverStarts(r)
              /\ Len(reqs'[r].password) >= MinPasswordLen
              /\ \A i \in CodeRows(reqs'[r].code) : ~Active(i))
             => /\ reqs'[r].pc = "done" /\ reqs'[r].status = 401
                /\ recovery_codes' = recovery_codes
                /\ profiles' = profiles
       /\ \A i \in Ids(recovery_codes) :
             recovery_codes[i].consumed_at # NULL => recovery_codes'[i].consumed_at # NULL
      ]_vars

\* request r starts a login in this step
LoginStarts(r) == reqs[r].pc = "idle" /\ reqs'[r].op = "login"

\* the three cases of a login that must be refused
UnknownUsername(u) == \A i \in Ids(profiles) : profiles[i].username # u

NoPasswordSet(u) ==
    \E i \in Ids(profiles) :
        profiles[i].username = u /\ profiles[i].password_hash = NULL_HASH

WrongPassword(u, pw) ==
    \E i \in Ids(profiles) :
        /\ profiles[i].username = u
        /\ profiles[i].password_hash # NULL_HASH
        /\ profiles[i].password_hash # hash_password(pw)

\* C10: a login with an unknown username, with the username of a profile
\* that has no password_hash, or with a wrong password gets one and the same
\* response, 401 "Invalid credentials" and no token, and changes nothing
\* that is persisted.
C10_NoUserOracle ==
    [][\A r \in Req :
          (/\ LoginStarts(r)
           /\ \/ UnknownUsername(reqs'[r].username)
              \/ NoPasswordSet(reqs'[r].username)
              \/ WrongPassword(reqs'[r].username, reqs'[r].password))
          => /\ reqs'[r] = [Fail(401, "Invalid credentials") EXCEPT
                               !.op = "login",
                               !.username = reqs'[r].username,
                               !.password = reqs'[r].password]
             /\ UNCHANGED <<profiles, user_sessions_privacy, recovery_codes, tokCtr>>
      ]_vars

\* C10 witness: a login with a wrong password for a registered username and
\* a login for a username nobody registered or one without password_hash
\* have both been refused
C10_Witness ==
    \E a, b \in Req :
        /\ reqs[a].op = "login" /\ reqs[a].pc = "done" /\ reqs[a].status = 401
        /\ WrongPassword(reqs[a].username, reqs[a].password)
        /\ reqs[b].op = "login" /\ reqs[b].pc = "done" /\ reqs[b].status = 401
        /\ NoPasswordSet(reqs[b].username)
        /\ UnknownUsername("ghost")

\* C11: when login answers 200 its commit has added one session row, owned
\* by the authenticated profile, holding the digest of the returned refresh
\* token, unrevoked, last used at the login's time and expiring one refresh
\* lifetime later; in particular a login whose digest collides with a stored
\* one is not answered 200.
C11_LoginStoresToken ==
    [][\A r \in Req :
          (Steps(r, "login", "commit", "done") /\ reqs'[r].status = 200)
          => /\ Len(user_sessions_privacy') = Len(user_sessions_privacy) + 1
             /\ user_sessions_privacy'[Len(user_sessions_privacy')] =
                   [profile_id |-> reqs'[r].profile_id,
                    refresh_token_hash |-> hmac_refresh_token_hex(reqs'[r].new_token),
                    created_at |-> reqs'[r].ts,
                    last_used_at |-> reqs'[r].ts,
                    expires_at |-> reqs'[r].ts + RefreshTTL,
                    revoked |-> FALSE]
             /\ profiles[reqs'[r].profile_id].username = reqs'[r].username
      ]_vars

\* request r starts a register in this step
RegisterStarts(r) == reqs[r].pc = "idle" /\ reqs'[r].op = "register"

\* C12: a register whose username is taken is answered 400 at once, and the
\* rows of profiles and of recovery_codes are the same after it as before.
C12_ConflictWritesNothing ==
    [][\A r \in Req :
          (/\ RegisterStarts(r)
           /\ \E i \in Ids(profiles) : profiles[i].username = reqs'[r].username)
          => /\ reqs'[r].pc = "done" /\ reqs'[r].status = 400
             /\ reqs'[r].locked = {}
             /\ profiles' = profiles
             /\ recovery_codes' = recovery_codes
      ]_vars

\* C12 witness: a register with an 8-character password was refused because
\* its username, registered by an earlier request, was taken
C12_Witness ==
    \E r \in Req :
        /\ reqs[r].op = "register" /\ reqs[r].pc = "done" /\ reqs[r].status = 400
        /\ reqs[r].detail = "Username already exists"
        /\ reqs[r].username \in RegUsernames
        /\ Len(recovery_codes) = RECOVERY_CODE_COUNT

\* C13: when register answers 201, one profile has the registered username,
\* the commit has added RECOVERY_CODE_COUNT rows owned by it and it owns no
\* other, every one of them unconsumed and all with the same expires_at, one
\* recovery lifetime after the row was made; the response carries
\* RECOVERY_CODE_COUNT distinct raw codes, each matching exactly one of these
\* rows.  A login with the username and password of a registered profile
\* passes the credential check, and one with another password is answered 401.
C13_RegisterCreatesBatch ==
    [][/\ \A r \in Req :
             (Steps(r, "register", "codes", "done") /\ reqs'[r].status = 201)
             => LET p == reqs'[r].profile_id
                    owned == {i \in Ids(recovery_codes') : recovery_codes'[i].profile_id = p}
                IN /\ {i \in Ids(profiles') : profiles'[i].username = reqs'[r].username} = {p}
                   /\ Len(recovery_codes') = Len(recovery_codes) + RECOVERY_CODE_COUNT
                   /\ owned = (Len(recovery_codes) + 1)..Len(recovery_codes')
                   /\ \A i \in owned :
                         /\ recovery_codes'[i].consumed_at = NULL
                         /\ recovery_codes'[i].expires_at =
                               recovery_codes'[i].created_at + RecoveryTTL
                   /\ \A i, j \in owned :
                         recovery_codes'[i].expires_at = recovery_codes'[j].expires_at
                   /\ Len(reqs'[r].codes) = RECOVERY_CODE_COUNT
                   /\ \A k, l \in 1..RECOVERY_CODE_COUNT :
                         k # l => reqs'[r].codes[k] # reqs'[r].codes[l]
                   /\ \A k \in 1..RECOVERY_CODE_COUNT :
                         Cardinality({i \in owned :
                             verify_recovery_code(reqs'[r].codes[k],
                                                  recovery_codes'[i].code_hash)}) = 1
       /\ \A r \in Req :
             (/\ LoginStarts(r)
              /\ \E i \in Ids(profiles) :
                    /\ profiles[i].username = reqs'[r].username
                    /\ profiles[i].password_hash # NULL_HASH)
             => IF \E i \in Ids(profiles) :
                      /\ profiles[i].username = reqs'[r].username
                      /\ profiles[i].password_hash = hash_password(reqs'[r].password)
                THEN reqs'[r].pc = "commit"
                ELSE reqs'[r].pc = "done" /\ reqs'[r].status = 401
      ]_vars

\* C14: a register or a recover whose password has fewer than 8 characters
\* is answered 400 at once: it locks and writes nothing, whatever recovery
\* code it presents.
C14_ShortPasswordRejected ==
    [][\A r \in Req :
          (/\ RegisterStarts(r) \/ RecoverStarts(r)
           /\ Len(reqs'[r].password) < 8)
          => /\ reqs'[r].pc = "done" /\ reqs'[r].status = 400
             /\ reqs'[r].locked = {} /\ reqs'[r].inserted = <<>>
             /\ UNCHANGED <<profiles, user_sessions_privacy, recovery_codes>>
      ]_vars

\* C14 witness: a register with a 7-character password
\* and a recover with a 7-character password and an active code have both
\* been answered 400
C14_Witness ==
    \E a, b \in Req :
        /\ reqs[a].op = "register" /\ reqs[a].status = 400
        /\ Len(reqs[a].password) = 7 /\ reqs[a].username \in RegUsernames
        /\ reqs[a].detail = "Password must be at least 8 characters"
        /\ reqs[b].op = "recover" /\ reqs[b].status = 400
        /\ Len(reqs[b].password) = 7
        /\ \E i \in CodeRows(reqs[b].code) : Active(i)

\* C15: when recover answers 200, the password_hash of the profile that owns
\* the code is the hash of the new password and of no other; and a login for
\* a profile with a password_hash passes the credential check exactly when
\* its password is the one hashed there, and is answered 401 otherwise.
C15_RecoverReplacesPassword ==
    [][/\ \A r \in Req :
             (Steps(r, "recover", "commit", "done") /\ reqs'[r].status = 200)
             => LET owner == recovery_codes[reqs[r].row].profile_id
                IN /\ reqs[r].row \in CodeRows(reqs[r].code)
                   /\ verify_password(reqs[r].password, profiles'[owner].password_hash)
                   /\ \A oldpw \in RegPasswords \cup NewPasswords \cup LoginPasswords :
                         oldpw # reqs[r].password
                         => ~verify_password(oldpw, profiles'[owner].password_hash)
       /\ \A r \in Req, i \in Ids(profiles) :
             (/\ LoginStarts(r)
              /\ profiles[i].username = reqs'[r].username
              /\ profiles[i].password_hash # NULL_HASH)
             => IF verify_password(reqs'[r].password, profiles[i].password_hash)
                THEN reqs'[r].pc = "commit" /\ reqs'[r].profile_id = i
                ELSE reqs'[r].pc = "done" /\ reqs'[r].status = 401
      ]_vars

\* C15 witness: after a recover has set the new password, a login with it
\* has been answered 200 and a login with the registered one 401
C15_Witness ==
    \E a, b \in Req :
        /\ reqs[a].op = "login" /\ reqs[a].pc = "done" /\ reqs[a].status = 200
        /\ reqs[a].password = "newpass12"
        /\ reqs[b].op = "login" /\ reqs[b].pc = "done" /\ reqs[b].status = 401
        /\ reqs[b].password = "longpass" /\ reqs[b].username = reqs[a].username
        /\ \E i \in Ids(recovery_codes) :
              /\ recovery_codes[i].consumed_at # NULL
              /\ recovery_codes[i].profile_id = reqs[a].profile_id
        /\ profiles[reqs[a].profile_id].password_hash = hash_password("newpass12")

\* a served recover request that was refused because of its code
RecoverRefusedCode(q) ==
    q.op = "recover" /\ q.pc = "done" /\ q.status = 401

\* C16: two recover requests refused because of their code, whether it
\* matched no row, a consumed row or an expired row, get the same response:
\* the same status and the same detail.
C16_OpaqueRecoverError ==
    \A a, b \in Req :
        (RecoverRefusedCode(reqs[a]) /\ RecoverRefusedCode(reqs[b]))
        => /\ reqs[a].status = reqs[b].status
           /\ reqs[a].detail = reqs[b].detail

\* request r finishes a get_current_user in this step
ResolverEnds(r) ==
    /\ reqs[r].pc # "done"
    /\ reqs'[r].op = "get_current_user" /\ reqs'[r].pc = "done"

\* the token verifies at time t: signed with the server's key and unexpired
Verifies(token, t) == token.sig = "ok" /\ token.claims.exp > t

\* C17: get_current_user returns a profile only for a token that has a
\* valid signature, was unexpired when it was decoded, carries a sub, and
\* whose sub is the id of a profile; it returns that profile; in every other
\* case it raises 401.
C17_ResolverContract ==
    [][\A r \in Req :
          ResolverEnds(r)
          => LET token == reqs'[r].bearer
             IN IF /\ Verifies(token, reqs'[r].ts)
                   /\ token.claims.sub # 0
                   /\ token.claims.sub \in Ids(profiles)
                THEN reqs'[r].result = token.claims.sub /\ reqs'[r].status = 0
                ELSE reqs'[r].result = 0 /\ reqs'[r].status = 401
      ]_vars

\* C17 witness: a profile was returned for a token login issued, and a token
\* with a valid signature whose sub is the id of no profile was refused
C17_Witness ==
    \E a, b \in Req :
        /\ reqs[a].op = "get_current_user" /\ reqs[a].pc = "done"
        /\ reqs[a].result = 2 /\ reqs[a].bearer.claims.username = "alice"
        /\ reqs[b].op = "get_current_user" /\ reqs[b].pc = "done"
        /\ reqs[b].status = 401 /\ reqs[b].detail = "User not found"
        /\ Verifies(reqs[b].bearer, reqs[b].ts)

ResolverSteps(r) == reqs'[r] # reqs[r] /\ reqs'[r].op = "get_current_user"

C20_RefreshKeepsOwner ==
    [][/\ \A i \in Sessions :
             user_sessions_privacy'[i].profile_id = user_sessions_privacy[i].profile_id
       /\ \A r \in Req :
             (Steps(r, "login", "commit", "done")
              /\ Len(user_sessions_privacy') > Len(user_sessions_privacy))
             => LET owner == user_sessions_privacy'[Len(user_sessions_privacy')].profile_id
                IN /\ profiles[owner].username = reqs[r].username
                   /\ verify_password(reqs[r].password, profiles[owner].password_hash)
       /\ \A r \in Req :
             (Steps(r, "refresh", "commit", "done") /\ reqs'[r].status = 200)
             => LET owner == user_sessions_privacy[reqs[r].row].profile_id
                IN /\ reqs'[r].access_token.sub = owner
                   /\ reqs'[r].access_token.username = profiles[owner].username
      ]_vars

\* C20 witness: two profiles each own a session, and a refresh presenting a
\* token of the second one's session has rotated it and got an access token
\* for the second profile
C20_Witness ==
    \E r \in Req, i, j \in Sessions :
        /\ user_sessions_privacy[i].profile_id = 2
        /\ user_sessions_privacy[j].profile_id = 3
        /\ reqs[r].op = "refresh" /\ reqs[r].pc = "done" /\ reqs[r].status = 200
        /\ reqs[r].row = j /\ reqs[r].rowcount = 1
        /\ reqs[r].access_token.sub = 3 /\ reqs[r].access_token.username = "bob"
        /\ user_sessions_privacy[j].refresh_token_hash =
              hmac_refresh_token_hex(reqs[r].new_token)

\* C21: no step removes a session row or changes the profile_id or the
\* created_at of one; the table grows only by the commit of a login, by one
\* row, and every login answered 200 has added its row, so that the rows are
\* as many as the logins answered 200; the commit of a refresh adds no row,
\* and the commit of a logout changes nothing but revoked.
C21_RowsOnlyFromLogin ==
    [][/\ Len(user_sessions_privacy') >= Len(user_sessions_privacy)
       /\ \A i \in Sessions :
             /\ user_sessions_privacy'[i].profile_id = user_sessions_privacy[i].profile_id
             /\ user_sessions_privacy'[i].created_at = user_sessions_privacy[i].created_at
       /\ Len(user_sessions_privacy') # Len(user_sessions_privacy)
          => /\ \E r \in Req : Steps(r, "login", "commit", "done")
             /\ Len(user_sessions_privacy') = Len(user_sessions_privacy) + 1
       /\ \A r \in Req :
             (Steps(r, "login", "commit", "done") /\ reqs'[r].status = 200)
             => Len(user_sessions_privacy') = Len(user_sessions_privacy) + 1
       /\ \A r \in Req :
             Steps(r, "logout", "commit", "done")
             => \A i \in Sessions :
                   user_sessions_privacy'[i] =
                      [user_sessions_privacy[i] EXCEPT
                          !.revoked = user_sessions_privacy'[i].revoked]
      ]_vars

\* C22: no two session rows hold the same refresh_token_hash, so that a
\* presented raw token matches at most one row.
C22_DigestUnique ==
    /\ \A i, j \in Sessions :
          i # j => user_sessions_privacy[i].refresh_token_hash #
                   user_sessions_privacy[j].refresh_token_hash
    /\ \A t \in 0..MaxTokens :
          Cardinality(refresh_update_where(hmac_refresh_token_hex(t))) <= 1

\* C22 witness: two logins were given the same raw token by the generator,
\* both have committed, and one row holds its digest
C22_Witness ==
    \E a, b \in Req :
        /\ a # b
        /\ reqs[a].op = "login" /\ reqs[a].pc = "done" /\ reqs[a].status = 200
        /\ reqs[b].op = "login" /\ reqs[b].pc = "done" /\ reqs[b].status = 200
        /\ reqs[a].new_token = reqs[b].new_token
        /\ Cardinality(refresh_update_where(hmac_refresh_token_hex(reqs[a].new_token))) = 1

\* C23: every session row holds in refresh_token_hash a keyed digest, every
\* recovery-code row in code_hash a bcrypt hash, every profile in
\* password_hash a bcrypt hash or nothing, and the rows have no other field
\* for a secret; raw recovery codes are held only by the register request
\* that generated them, raw refresh tokens only by the login or refresh
\* request that generated them.
C23_OnlyDigestsPersisted ==
    /\ \A i \in Sessions :
          /\ \E t \in 0..MaxTokens :
                user_sessions_privacy[i].refresh_token_hash = [hmac |-> t]
          /\ DOMAIN user_sessions_privacy[i] =
                {"profile_id", "refresh_token_hash", "created_at", "last_used_at",
                 "expires_at", "revoked"}
    /\ \A i \in Ids(recovery_codes) :
          /\ \E c \in 0..(MaxRegistered * RECOVERY_CODE_COUNT) :
                recovery_codes[i].code_hash = [bcrypt |-> c]
          /\ DOMAIN recovery_codes[i] =
                {"profile_id", "code_hash", "created_at", "expires_at", "consumed_at"}
    /\ \A i \in Ids(profiles) :
          /\ \/ profiles[i].password_hash = NULL_HASH
             \/ \E pw \in RegPasswords \cup NewPasswords :
                   profiles[i].password_hash = [bcrypt |-> pw]
          /\ DOMAIN profiles[i] = {"username", "password_hash"}
    /\ \A r \in Req :
          /\ reqs[r].codes # <<>> => reqs[r].op = "register"
          /\ reqs[r].new_token # 0 => reqs[r].op \in {"login", "refresh"}

\* C23 witness: a register has returned its codes, a login has stored a
\* session, and a recover has stored a new password
C23_Witness ==
    /\ Len(user_sessions_privacy) > 0
    /\ \E i \in Ids(recovery_codes) : recovery_codes[i].consumed_at # NULL
    /\ \E i \in Ids(profiles) : profiles[i].password_hash = hash_password("newpass12")
    /\ \E r \in Req : reqs[r].op = "login" /\ reqs[r].status = 200

\* a served request of one of the five auth routes
AuthServed(q) ==
    q.pc = "done" /\ q.op \in {"register", "login", "refresh", "logout", "recover"}

\* C24: every outcome of register, login, refresh, logout and recover is a
\* success (200, 201, 204), a 400 or a 401; a request whose session or
\* recovery code has lost its profile is answered 401.
C24_OnlyDocumentedStatuses ==
    \A r \in Req :
        AuthServed(reqs[r]) => reqs[r].status \in {200, 201, 204, 400, 401}

\* C25: a process whose environment lacks REFRESH_TOKEN_PEPPER fails at
\* startup: it takes up no request, and no login, refresh or logout runs
\* into the missing pepper.
C25_PepperCheckedAtStartup ==
    pepper_missing => \A r \in Req : reqs[r].op = "idle"

\* C26: verify_password and verify_recovery_code return false for a
\* malformed stored hash, so no login and no recover ends in an unhandled
\* error because a stored hash is malformed: they are answered as for a
\* mismatch.
C26_VerifyNeverRaises ==
    \A r \in Req :
        (reqs[r].pc = "done" /\ reqs[r].op \in {"login", "recover"})
            => reqs[r].status # 500

\* C27: the access token login or refresh issues at time t carries the
\* profile's id as sub, iat = t and exp = t + AccessTTL; get_current_user
\* takes a token signed by the server at every time before iat + AccessTTL
\* and refuses it as expired at every time from then on, whatever refreshes
\* have been served in between.
C27_AccessTokenLifetime ==
    /\ \A r \in Req :
          (reqs[r].op \in {"login", "refresh"} /\ reqs[r].access_token # NoAccess)
          => /\ reqs[r].access_token.sub = reqs[r].profile_id
             /\ reqs[r].access_token.iat = reqs[r].ts
             /\ reqs[r].access_token.exp = reqs[r].ts + AccessTTL
    /\ \A r \in Req :
          (reqs[r].op = "get_current_user" /\ reqs[r].bearer.sig = "ok")
          => (reqs[r].detail = "Token has expired"
                <=> reqs[r].ts >= reqs[r].bearer.claims.iat + AccessTTL)

\* C27 witness: after a rotation, one access token was taken before its exp
\* and refused as expired at its exp
C27_Witness ==
    \E a, b \in Req :
        /\ rotated # {}
        /\ reqs[a].op = "get_current_user" /\ reqs[a].result = 2
        /\ reqs[b].op = "get_current_user"
        /\ reqs[b].bearer = reqs[a].bearer
        /\ reqs[a].ts < reqs[a].bearer.claims.exp
        /\ reqs[b].ts = reqs[b].bearer.claims.exp
        /\ reqs[b].status = 401 /\ reqs[b].detail = "Token has expired"

\* C28: a logout whose token was the token of an unrevoked session when its
\* UPDATE was issued leaves that session revoked once it has completed,
\* whatever refresh requests of the same token run beside it.
C28_LogoutWinsOverRefresh ==
    \A r \in Req :
        (reqs[r].op = "logout" /\ reqs[r].pc = "done" /\ reqs[r].row # 0)
            => user_sessions_privacy[reqs[r].row].revoked

\* C29: a refresh answered 401 (token unknown, session revoked, session
\* expired, owning profile missing) has changed no row of any table: the
\* steps it took, the SELECT of the session and the SELECT of the profile,
\* leave the tables as they are, and it holds no lock and no unwritten change
\* when it answers.
C29_RefusedRefreshWritesNothing ==
    [][\A r \in Req :
          /\ Steps(r, "refresh", "idle", "load") => db' = db
          /\ (/\ reqs[r].pc # "done" /\ reqs'[r].pc = "done"
              /\ reqs'[r].op = "refresh" /\ reqs'[r].status = 401)
             => /\ db' = db
                /\ reqs[r].pc \in {"idle", "load"}
                /\ reqs[r].locked = {} /\ reqs'[r].locked = {}
      ]_vars

\* C29 witness: refreshes have been refused for an expired session and for a
\* session whose profile was deleted after the session was selected
C29_Witness ==
    \E a, b \in Req :
        /\ reqs[a].op = "refresh" /\ reqs[a].pc = "done" /\ reqs[a].status = 401
        /\ reqs[a].detail = "Refresh token expired"
        /\ reqs[b].op = "refresh" /\ reqs[b].pc = "done" /\ reqs[b].status = 401
        /\ reqs[b].detail = "Invalid session"

\* C30: a logout changes no row but the one whose digest is that of the
\* presented token, and of that row only the revoked flag: every other
\* session row, other sessions of the same profile included, is left as it
\* was (revoked flag, digest, expiry), and so are profiles and recovery
\* codes.
C30_LogoutTouchesOneRow ==
    [][\A r \in Req :
          (reqs[r].op = "logout" \/ reqs'[r].op = "logout") /\ reqs'[r] # reqs[r]
          => /\ profiles' = profiles /\ recovery_codes' = recovery_codes
             /\ Len(user_sessions_privacy') = Len(user_sessions_privacy)
             /\ \A i \in Sessions :
                   IF user_sessions_privacy[i].refresh_token_hash =
                         hmac_refresh_token_hex(reqs'[r].token)
                   THEN [user_sessions_privacy'[i] EXCEPT !.revoked = FALSE] =
                        [user_sessions_privacy[i] EXCEPT !.revoked = FALSE]
                   ELSE user_sessions_privacy'[i] = user_sessions_privacy[i]
      ]_vars

\* C30 witness: of two sessions of one profile, a logout has revoked one, and
\* a refresh presenting the other's token has been answered 200
C30_Witness ==
    \E a, b \in Req :
        /\ reqs[a].op = "logout" /\ reqs[a].pc = "done" /\ reqs[a].rowcount = 1
        /\ reqs[b].op = "refresh" /\ reqs[b].pc = "done" /\ reqs[b].status = 200
        /\ reqs[b].rowcount = 1
        /\ reqs[a].row # 0 /\ reqs[b].row # 0 /\ reqs[a].row # reqs[b].row
        /\ user_sessions_privacy[reqs[a].row].revoked
        /\ ~user_sessions_privacy[reqs[b].row].revoked
        /\ user_sessions_privacy[reqs[a].row].profile_id =
              user_sessions_privacy[reqs[b].row].profile_id

\* C31: no step of a recover changes a session row; the refresh tokens that
\* were accepted before a recover commits are accepted after it.
C31_RecoverKeepsSessions ==
    [][\A r \in Req :
          ((reqs[r].op = "recover" \/ reqs'[r].op = "recover") /\ reqs'[r] # reqs[r])
          => /\ user_sessions_privacy' = user_sessions_privacy
             /\ \A t \in 1..MaxTokens : Accepted(t) => Accepted(t)'
      ]_vars

\* C31 witness: a recover has replaced the password of a profile that holds
\* a session created before, and a refresh of that session's token, started
\* no earlier than the recover read the clock, has been answered 200
C31_Witness ==
    \E a, b \in Req :
        /\ reqs[a].op = "recover" /\ reqs[a].pc = "done" /\ reqs[a].status = 200
        /\ reqs[b].op = "refresh" /\ reqs[b].pc = "done" /\ reqs[b].status = 200
        /\ reqs[b].rowcount = 1
        /\ reqs[b].profile_id = reqs[a].profile_id
        /\ user_sessions_privacy[reqs[b].row].created_at < reqs[a].ts
        /\ reqs[a].ts <= reqs[b].ts
        /\ ~user_sessions_privacy[reqs[b].row].revoked

\* the password of profile p is one only recover stores
ReplacedByRecover(p) ==
    \E pw \in NewPasswords \ RegPasswords :
        profiles[p].password_hash = hash_password(pw)

\* C32: in every committed state, a code is consumed only if its owner's
\* password has been replaced, and a password has been replaced only if a
\* code of that profile is consumed: recover commits both writes in one step.
C32_RecoverAtomic ==
    /\ \A i \in Ids(recovery_codes) :
          recovery_codes[i].consumed_at # NULL
             => ReplacedByRecover(recovery_codes[i].profile_id)
    /\ \A p \in Ids(profiles) :
          ReplacedByRecover(p)
             => \E i \in Ids(recovery_codes) :
                   /\ recovery_codes[i].profile_id = p
                   /\ recovery_codes[i].consumed_at # NULL

\* C32 witness: a recover has committed (code consumed, password replaced)
\* while another recover of the same profile holds its writes uncommitted
C32_Witness ==
    \E a, b \in Req :
        /\ reqs[a].op = "recover" /\ reqs[a].pc = "done" /\ reqs[a].status = 200
        /\ recovery_codes[reqs[a].row].consumed_at # NULL
        /\ ReplacedByRecover(reqs[a].profile_id)
        /\ reqs[b].op = "recover" /\ reqs[b].pc = "commit"
        /\ reqs[b].row # reqs[a].row
        /\ recovery_codes[reqs[b].row].consumed_at = NULL

\* C33: the commit of a recover writes the password_hash of the profile that
\* owns the row the presented code verifies against, and the consumed_at of
\* that row; every other profile and every other recovery code is left as it
\* was, and no other step of a recover writes a row.
C33_RecoverTouchesOwnerOnly ==
    [][\A r \in Req :
          /\ ((reqs[r].op = "recover" \/ reqs'[r].op = "recover")
                  /\ reqs'[r] # reqs[r] /\ reqs'[r].status # 200)
             => db' = db
          /\ (reqs[r].pc # "done" /\ reqs'[r].op = "recover" /\ reqs'[r].status = 200)
             => LET row == reqs[r].row
                    owner == recovery_codes[row].profile_id
                IN /\ verify_recovery_code(reqs[r].code, recovery_codes[row].code_hash)
                   /\ reqs[r].profile_id = owner
                   /\ profiles' = [profiles EXCEPT ![owner].password_hash =
                                      hash_password(reqs[r].password)]
                   /\ \E at \in 0..MaxTime :
                         recovery_codes' =
                            [recovery_codes EXCEPT ![row].consumed_at = at]
                   /\ user_sessions_privacy' = user_sessions_privacy
      ]_vars

\* C33 witness: alice's recover has been answered 200; her other code and
\* bob's codes are unconsumed and bob's password is the one he registered
C33_Witness ==
    \E a \in Req :
        /\ reqs[a].op = "recover" /\ reqs[a].pc = "done" /\ reqs[a].status = 200
        /\ profiles[reqs[a].profile_id].username = "alice"
        /\ profiles[2].password_hash = hash_password("newpass12")
        /\ profiles[3].password_hash = hash_password("newpass12")
        /\ Cardinality({i \in Ids(recovery_codes) :
                            recovery_codes[i].consumed_at # NULL}) = 1
        /\ \E i \in Ids(recovery_codes) :
              recovery_codes[i].profile_id = 3 /\ Active(i)

\* register request q has been accepted: its profile is inserted
RegisterWon(q) ==
    q.op = "register" /\ (q.pc = "codes" \/ (q.pc = "done" /\ q.status = 201))

\* C34: usernames are unique across profiles in every state; of two register
\* requests with one username in flight, at most one is accepted, and the
\* other, once answered, is answered 400; the refused one stores no profile
\* and no code, so the codes of a profile are those of the one accepted
\* request.
C34_OneProfilePerUsername ==
    /\ \A i, j \in Ids(profiles) :
          profiles[i].username = profiles[j].username => i = j
    /\ \A a, b \in Req :
          (/\ a # b
           /\ reqs[a].op = "register" /\ reqs[b].op = "register"
           /\ reqs[a].username = reqs[b].username
           /\ RegisterWon(reqs[a]))
          => /\ ~RegisterWon(reqs[b])
             /\ reqs[b].pc = "done" /\ reqs[b].status = 400
             /\ reqs[b].inserted = <<>> /\ reqs[b].codes = <<>>
             /\ Cardinality(ProfileByUsername(reqs[a].username)) = 1
    /\ \A p \in Ids(profiles) :
          Cardinality({i \in Ids(recovery_codes) : recovery_codes[i].profile_id = p})
             \in {0, RECOVERY_CODE_COUNT}

\* C34 witness: while one register of "alice" is inserting its codes, another
\* register of "alice" has been refused with 400; then the first is answered
\* 201 and its codes are the codes stored
C34_Witness ==
    \E a, b \in Req :
        /\ reqs[a].op = "register" /\ reqs[a].pc = "done" /\ reqs[a].status = 201
        /\ reqs[b].op = "register" /\ reqs[b].pc = "done" /\ reqs[b].status = 400
        /\ reqs[b].detail = "Username already exists"
        /\ reqs[a].username = "alice" /\ reqs[b].username = "alice"
        /\ Len(recovery_codes) = RECOVERY_CODE_COUNT
        /\ \A i \in Ids(recovery_codes) :
              recovery_codes[i].profile_id = reqs[a].profile_id

\* C35: in every committed state, the members_count of each organization is
\* the number of its org_memberships rows, and no profile has two membership
\* rows in one organization.
C35_MembersCounted ==
    /\ \A o \in Ids(organizations) :
          organizations[o].members_count =
             Cardinality({m \in Ids(org_memberships) : org_memberships[m].org_id = o})
    /\ \A m, n \in Ids(org_memberships) :
          (/\ org_memberships[m].org_id = org_memberships[n].org_id
           /\ org_memberships[m].member_id = org_memberships[n].member_id) => m = n

\* C35 witness: two joins of one profile to one organization ran side by
\* side, one was answered "Joined" and the other failed on the constraint;
\* the organization has its creator and that member
C35_Witness ==
    \E a, b \in Req :
        /\ reqs[a].op = "join_org" /\ reqs[a].pc = "done" /\ reqs[a].detail = "Joined"
        /\ reqs[b].op = "join_org" /\ reqs[b].pc = "done" /\ reqs[b].status = 500
        /\ reqs[a].org = reqs[b].org /\ reqs[a].profile_id = reqs[b].profile_id
        /\ organizations[reqs[a].org].members_count = 2

\* the review rows belonging to the personalities of an organization
ReviewsOfOrg(o) ==
    {v \in DOMAIN reviews : personalities[reviews[v].personality_id].org_id = o}

\* C36: after any sequence of create_review, delete_review and
\* delete_personality requests, the reviews_count of each organization is the
\* number of review rows of its personalities, and it is never negative.
C36_ReviewsCounted ==
    \A o \in Ids(organizations) :
        /\ organizations[o].reviews_count = Cardinality(ReviewsOfOrg(o))
        /\ organizations[o].reviews_count >= 0

\* the reviews of a personality that carry a rating
RatedReviewsOf(p) == {v \in ReviewsOf(p) : reviews[v].rating # NULL}

\* C37: after any sequence of create_review, update_review and delete_review
\* requests, the total_reviews of each personality is the number of its
\* reviews with a rating, and no update_review has failed on the division by
\* total_reviews.
C37_RatedReviewsCounted ==
    /\ \A p \in DOMAIN personalities :
          personalities[p].total_reviews = Cardinality(RatedReviewsOf(p))
    /\ \A r \in Req :
          ~(reqs[r].op = "update_review" /\ reqs[r].detail = "Failed to update review")

\* the profile may delete the review: its author, or a creator or moderator
\* of the organization of its personality
MayDelete(profile_id, v) ==
    \/ reviews[v].author_id = profile_id
    \/ \E m \in Ids(org_memberships) :
          /\ org_memberships[m].org_id = personalities[reviews[v].personality_id].org_id
          /\ org_memberships[m].member_id = profile_id
          /\ org_memberships[m].role \in {"creator", "moderator"}

\* the profile has a membership row in the organization
MemberOf(profile_id, o) ==
    \E m \in Ids(org_memberships) :
        org_memberships[m].org_id = o /\ org_memberships[m].member_id = profile_id

\* C39: a step that adds a review is a create_review of a caller who is a
\* member of the personality's organization in the state it runs in, a step
\* that changes a review is an update_review of its author, and a step that
\* removes reviews is the request of a caller who is the author or a
\* creator or moderator of the organization; a create_review of a
\* non-member, an update_review of a non-author and a delete_review of
\* neither are answered 403, and a request answered 403 leaves reviews,
\* personalities and organizations as they were.
C39_ReviewAuthorisation ==
    [][/\ \A v \in (DOMAIN reviews') \ DOMAIN reviews :
             \E r \in Req :
                 /\ Steps(r, "create_review", "idle", "done")
                 /\ reqs'[r].profile_id = reviews'[v].author_id
                 /\ personalities[reviews'[v].personality_id].org_id = reqs'[r].org
                 /\ MemberOf(reqs'[r].profile_id, reqs'[r].org)
       /\ \A v \in DOMAIN reviews \cap DOMAIN reviews' :
             reviews'[v] # reviews[v] =>
                 \E r \in Req :
                     /\ Steps(r, "update_review", "idle", "done")
                     /\ reqs'[r].row = v
                     /\ reqs'[r].profile_id = reviews[v].author_id
       /\ \A v \in DOMAIN reviews \ DOMAIN reviews' :
             \E r \in Req :
                 /\ reqs[r].pc = "idle" /\ reqs'[r].pc = "done"
                 /\ reqs'[r].op \in {"delete_review", "delete_personality"}
                 /\ MayDelete(reqs'[r].profile_id, v)
       /\ \A r \in Req :
             /\ (/\ Steps(r, "create_review", "idle", "done")
                 /\ reqs'[r].org # 0
                 /\ ~MemberOf(reqs'[r].profile_id, reqs'[r].org))
                    => reqs'[r].status = 403
             /\ (/\ Steps(r, "update_review", "idle", "done")
                 /\ reqs'[r].row \in DOMAIN reviews
                 /\ reviews[reqs'[r].row].author_id # reqs'[r].profile_id)
                    => reqs'[r].status = 403
             /\ (/\ Steps(r, "delete_review", "idle", "done")
                 /\ reqs'[r].row \in DOMAIN reviews
                 /\ ~MayDelete(reqs'[r].profile_id, reqs'[r].row))
                    => reqs'[r].status = 403
             /\ (reqs[r].pc = "idle" /\ reqs'[r].pc = "done" /\ reqs'[r].status = 403)
                    => /\ reviews' = reviews
                       /\ personalities' = personalities
                       /\ organizations' = organizations
      ]_vars

\* C39 witness: alice, a member who is neither the author nor a moderator,
\* has asked to delete a review bob wrote and was answered 403; the review is
\* there and counted
C39_Witness ==
    \E r \in Req :
        /\ reqs[r].op = "delete_review" /\ reqs[r].pc = "done" /\ reqs[r].status = 403
        /\ reqs[r].row \in DOMAIN reviews
        /\ MemberOf(reqs[r].profile_id, personalities[reviews[reqs[r].row].personality_id].org_id)
        /\ reviews[reqs[r].row].author_id # reqs[r].profile_id
        /\ organizations[1].reviews_count = Cardinality(DOMAIN reviews)

\* C38: when the client has followed next_cursor from the first page to a
\* page without one, the items it has been given are the reviews of the
\* personality within the rating bounds, each exactly once, whatever the sort
\* order and the limit.
C38_PagesCoverEachReviewOnce ==
    listing.pc = "end" =>
        /\ {listing.items[i] : i \in 1..Len(listing.items)}
              = list_where(1, listing.rating_min, listing.rating_max)
        /\ Len(listing.items)
              = Cardinality(list_where(1, listing.rating_min, listing.rating_max))

\* the same for the sort order "newest" alone, the order the cursor's
\* comparison is written for
NewestPagesCoverEachReviewOnce ==
    (listing.pc = "end" /\ listing.sort = "newest") =>
        /\ {listing.items[i] : i \in 1..Len(listing.items)}
              = list_where(1, listing.rating_min, listing.rating_max)
        /\ Len(listing.items)
              = Cardinality(list_where(1, listing.rating_min, listing.rating_max))

====
